---- MODULE Spec2Model ----
(***************************************************************************)
(* Price-time priority limit order book (microbook/book.py) driven by      *)
(* arbitrary sequences of submit / cancel / modify calls.                  *)
(*                                                                         *)
(* Prices are modelled as integer ticks 1..MaxPrice; the +inf price that   *)
(* place_market gives a BUY is Inf, a value above every price, and the 0.0 *)
(* it gives a SELL is 0.  Python dicts are functions with a finite domain, *)
(* deques and lists are sequences, Optional arguments are <<>> (None) or   *)
(* <<v>>.  Order ids are 1..NumIds.  The book never reads Order.ts; orders *)
(* carry it so that claims about ts can be decided.                        *)
(*                                                                         *)
(* The event-driven simulator (microbook/sim/simulator.py) runs over the   *)
(* same book operators.  Its heap is the set of queued events, popped in   *)
(* (time, seq) order; a run is one Schedule step per schedule() call made  *)
(* before it, Run, one step per dispatched event, and Return.  Simulator   *)
(* prices are counted in units of 1/PriceUnit (Px(n) is the price n.0) so  *)
(* that the halvings of midprice stay exact, and order ids are strings.    *)
(* sched and trace record the schedule() calls and the dispatches of the   *)
(* run; config, stream and first serve the comparison of two runs.         *)
(*                                                                         *)
(* Definitions named after a fault (del_id_forgotten, back, ...) are faulty*)
(* variants of the definition that follows them; the model does not use    *)
(* them, they show which fault each theorem detects.                       *)
(***************************************************************************)
EXTENDS Integers, Sequences, FiniteSets, TLC

\* ------------------------------------------------------------------ bounds
NumIds == 3
MaxPrice == 3
MaxQty == 2
MaxTs == 2
MaxOrders == 2
MaxTime == 1
MaxScheduled == 3
MaxReplayed == 2
MaxFills == 3
MaxTicks == 3
MaxInv == 2

Ids == 1..NumIds
Prices == 1..MaxPrice
Qtys == 1..MaxQty
TsVals == 1..MaxTs
Times == 0..MaxTime

\* Prices of the simulator are floats that the quoting strategies halve
\* (midprice) once per refresh; the model counts them in units of
\* 1/PriceUnit, fine enough for every refresh a run within MaxTime can make.
PriceUnit == 2 ^ (2 * MaxTime + 3)

Px(n) == n * PriceUnit

\* float('inf'): above the ticks of the book and above every price a
\* simulator run quotes.
Inf == MaxPrice + Px(64)

BUY == "BUY"
SELL == "SELL"
Side == {BUY, SELL}

None == <<>>
Some(v) == <<v>>

\* lob: the LimitOrderBook (a record of the seven fields __init__ creates).
\* prev, last: the log of the final call of a run, see Log below.
VARIABLES lob, prev, last

\* The MarketSimulator around the book: its heap _pq of events, _seq, now,
\* _order_owner, strategies, exec_metrics and ts (ts_series); out and until
\* of the call of run() and pc, its position (idle, running, returned,
\* raised); sched and trace, the history of schedule() calls and dispatches.
\* config and stream keep what the simulator was constructed with and the
\* schedule() calls of its driver, first the outcome of a first run, for
\* the driver that repeats a run on a second simulator.
VARIABLES _pq, _seq, now, _order_owner, strategies, exec_metrics, ts_series,
          out, until, pc, sched, trace, config, stream, first

simvars == <<_pq, _seq, now, _order_owner, strategies, exec_metrics, ts_series,
             out, until, pc, sched, trace, config, stream, first>>

vars == <<lob, prev, last, simvars>>

\* --------------------------------------------------------- dict / list helpers
Get(f, k, d) == IF k \in DOMAIN f THEN f[k] ELSE d

Put(f, k, v) == [x \in (DOMAIN f) \cup {k} |-> IF x = k THEN v ELSE f[x]]

Pop(f, k) == [x \in (DOMAIN f) \ {k} |-> f[x]]

EmptyDict == [x \in {} |-> 0]

RECURSIVE SumQty(_)
SumQty(q) == IF q = <<>> THEN 0 ELSE Head(q).qty + SumQty(Tail(q))

InsertAt(s, idx, x) == SubSeq(s, 1, idx) \o <<x>> \o SubSeq(s, idx + 1, Len(s))

RemoveAt(s, i) == SubSeq(s, 1, i - 1) \o SubSeq(s, i + 1, Len(s))

\* Faulty min: traded = taker qty.
TakeFirst(a, b) == a

Min(a, b) == IF a <= b THEN a ELSE b

\* bisect.bisect_left(a, x) on a 0-indexed list: the binary search of the
\* standard library, lo = 0, hi = len(a).
RECURSIVE bisect_loop(_, _, _, _)
bisect_loop(a, x, lo, hi) ==
    IF lo < hi
    THEN LET mid == (lo + hi) \div 2
         IN  IF a[mid + 1] < x
             THEN bisect_loop(a, x, mid + 1, hi)
             ELSE bisect_loop(a, x, lo, mid)
    ELSE lo

bisect_left(a, x) == bisect_loop(a, x, 0, Len(a))

\* --------------------------------------------------------------- the book
Order(order_id, side, price, qty, ts) ==
    [order_id |-> order_id, side |-> side, price |-> price, qty |-> qty, ts |-> ts]

Fill(taker, maker, price, qty) ==
    [taker_order_id |-> taker, maker_order_id |-> maker, price |-> price, qty |-> qty]

EmptyBook ==
    [bids |-> EmptyDict, asks |-> EmptyDict,
     bid_prices |-> <<>>, ask_prices |-> <<>>,
     bid_qty |-> EmptyDict, ask_qty |-> EmptyDict,
     id_map |-> EmptyDict]

best_bid(B) == IF B.bid_prices # <<>> THEN Some(B.bid_prices[1]) ELSE None

best_ask(B) == IF B.ask_prices # <<>> THEN Some(B.ask_prices[1]) ELSE None

\* depth(levels): the first `levels` prices of each side with the cached aggregate.
depth(B, levels) ==
    [bids |-> [i \in 1..Min(levels, Len(B.bid_prices)) |->
                 <<B.bid_prices[i], Get(B.bid_qty, B.bid_prices[i], 0)>>],
     asks |-> [i \in 1..Min(levels, Len(B.ask_prices)) |->
                 <<B.ask_prices[i], Get(B.ask_qty, B.ask_prices[i], 0)>>]]

\* Faulty _insert_price: bisects the bid list without negating it.
_insert_price_unnegated(prices, price, descending) ==
    InsertAt(prices, bisect_left(prices, price), price)

_insert_price(prices, price, descending) ==
    IF descending
    THEN LET negs == [i \in 1..Len(prices) |-> 0 - prices[i]]
             idx == bisect_left(negs, 0 - price)
         IN  InsertAt(prices, idx, price)
    ELSE LET idx == bisect_left(prices, price)
         IN  InsertAt(prices, idx, price)

\* Faulty _remove_price: leaves the price in the list.
_remove_price_skipped(prices, price) == prices

_remove_price(prices, price) ==
    IF \E i \in 1..Len(prices) : prices[i] = price
    THEN LET i == CHOOSE j \in 1..Len(prices) :
                      /\ prices[j] = price
                      /\ \A k \in 1..(j - 1) : prices[k] # price
         IN  RemoveAt(prices, i)
    ELSE prices

\* A faulty insertion into a level: at the front of the deque.
appendleft(q, order) == <<order>> \o q

\* `q.append(order)`: the order joins its level at the tail.
append(q, order) == Append(q, order)

_rest(B, order) ==
    LET isBuy == order.side = BUY
        book == IF isBuy THEN B.bids ELSE B.asks
        prices == IF isBuy THEN B.bid_prices ELSE B.ask_prices
        agg == IF isBuy THEN B.bid_qty ELSE B.ask_qty
        fresh == order.price \notin DOMAIN book
        book1 == IF fresh THEN Put(book, order.price, <<>>) ELSE book
        prices1 == IF fresh THEN _insert_price(prices, order.price, isBuy) ELSE prices
        agg1 == IF fresh THEN Put(agg, order.price, 0) ELSE agg
        book2 == Put(book1, order.price, append(book1[order.price], order))
        agg2 == Put(agg1, order.price, Get(agg1, order.price, 0) + order.qty)
        idm == Put(B.id_map, order.order_id, [side |-> order.side, price |-> order.price])
    IN  IF isBuy
        THEN [B EXCEPT !.bids = book2, !.bid_prices = prices1, !.bid_qty = agg2, !.id_map = idm]
        ELSE [B EXCEPT !.asks = book2, !.ask_prices = prices1, !.ask_qty = agg2, !.id_map = idm]

\* Faulty del_id: the index entry is kept.
del_id_forgotten(idm, order_id) == idm

\* del self._id_map[order_id] / self._id_map.pop(order_id, None)
del_id(idm, order_id) == Pop(idm, order_id)

\* Faulty dec_agg: the cached aggregate is not updated.
dec_agg_forgotten(agg, price, by) == agg

\* agg[price] = agg.get(price, 0) - by
dec_agg(agg, price, by) == Put(agg, price, Get(agg, price, 0) - by)

\* Faulty front: q[-1], the newest order of the level.
back(q) == q[Len(q)]

\* q[0], the head of a level's deque: the maker of the next match.
front(q) == q[1]

\* Faulty ask_blocks: a buy priced exactly at the best ask does not match.
ask_blocks_at_equal(best_ask_px, buy_price) == best_ask_px >= buy_price

\* The break tests of the two matching loops.
ask_blocks(best_ask_px, buy_price) == best_ask_px > buy_price

\* Faulty bid_blocks: a sell priced exactly at the best bid does not match.
bid_blocks_at_equal(best_bid_px, sell_price) == best_bid_px <= sell_price

bid_blocks(best_bid_px, sell_price) == best_bid_px < sell_price

\* One pass of the while loop of _match_buy; S = [lob, order, fills].
RECURSIVE _match_buy_loop(_)
_match_buy_loop(S) ==
    LET B == S.lob
        buy == S.order
    IN  IF ~(buy.qty > 0 /\ B.ask_prices # <<>>)
        THEN S
        ELSE
          LET best == B.ask_prices[1]
          IN  IF ask_blocks(best, buy.price)
              THEN S
              ELSE
                LET ask_q == B.asks[best]
                    maker == front(ask_q)
                    traded == Min(buy.qty, maker.qty)
                    f == Fill(buy.order_id, maker.order_id, best, traded)
                    buy1 == [buy EXCEPT !.qty = buy.qty - traded]
                    maker1 == [maker EXCEPT !.qty = maker.qty - traded]
                    agg1 == dec_agg(B.ask_qty, best, traded)
                    B1 == IF maker1.qty = 0
                          THEN LET q1 == Tail(ask_q)
                                   idm == del_id(B.id_map, maker.order_id)
                               IN  IF q1 = <<>>
                                   THEN [B EXCEPT !.asks = Pop(B.asks, best),
                                                  !.ask_prices = Tail(B.ask_prices),
                                                  !.ask_qty = Pop(agg1, best),
                                                  !.id_map = idm]
                                   ELSE [B EXCEPT !.asks = Put(B.asks, best, q1),
                                                  !.ask_qty = agg1,
                                                  !.id_map = idm]
                          ELSE [B EXCEPT !.asks = Put(B.asks, best, <<maker1>> \o Tail(ask_q)),
                                         !.ask_qty = agg1]
                IN  _match_buy_loop([lob |-> B1, order |-> buy1, fills |-> Append(S.fills, f)])

_match_buy(B, buy) == _match_buy_loop([lob |-> B, order |-> buy, fills |-> <<>>])

RECURSIVE _match_sell_loop(_)
_match_sell_loop(S) ==
    LET B == S.lob
        sell == S.order
    IN  IF ~(sell.qty > 0 /\ B.bid_prices # <<>>)
        THEN S
        ELSE
          LET best == B.bid_prices[1]
          IN  IF bid_blocks(best, sell.price)
              THEN S
              ELSE
                LET bid_q == B.bids[best]
                    maker == front(bid_q)
                    traded == Min(sell.qty, maker.qty)
                    f == Fill(sell.order_id, maker.order_id, best, traded)
                    sell1 == [sell EXCEPT !.qty = sell.qty - traded]
                    maker1 == [maker EXCEPT !.qty = maker.qty - traded]
                    agg1 == dec_agg(B.bid_qty, best, traded)
                    B1 == IF maker1.qty = 0
                          THEN LET q1 == Tail(bid_q)
                                   idm == del_id(B.id_map, maker.order_id)
                               IN  IF q1 = <<>>
                                   THEN [B EXCEPT !.bids = Pop(B.bids, best),
                                                  !.bid_prices = Tail(B.bid_prices),
                                                  !.bid_qty = Pop(agg1, best),
                                                  !.id_map = idm]
                                   ELSE [B EXCEPT !.bids = Put(B.bids, best, q1),
                                                  !.bid_qty = agg1,
                                                  !.id_map = idm]
                          ELSE [B EXCEPT !.bids = Put(B.bids, best, <<maker1>> \o Tail(bid_q)),
                                         !.bid_qty = agg1]
                IN  _match_sell_loop([lob |-> B1, order |-> sell1, fills |-> Append(S.fills, f)])

_match_sell(B, sell) == _match_sell_loop([lob |-> B, order |-> sell, fills |-> <<>>])

\* Faulty place_limit: rests the order with its original qty.
place_limit_rests_whole_order(B, order) ==
    LET m == IF order.side = BUY THEN _match_buy(B, order) ELSE _match_sell(B, order)
    IN  [lob |-> IF m.order.qty > 0 THEN _rest(m.lob, order) ELSE m.lob,
         fills |-> m.fills]

\* place_limit: match, then rest the remainder.  Result [lob, fills].
place_limit(B, order) ==
    LET m == IF order.side = BUY THEN _match_buy(B, order) ELSE _match_sell(B, order)
    IN  [lob |-> IF m.order.qty > 0 THEN _rest(m.lob, m.order) ELSE m.lob,
         fills |-> m.fills]

\* Faulty place_market: rests what it could not fill.
place_market_rests_remainder(B, order) ==
    place_limit(B, [order EXCEPT !.price = IF order.side = BUY THEN Inf ELSE 0])

\* Faulty place_market: matches at the order's own (dummy) price.
place_market_at_order_price(B, order) ==
    LET m == IF order.side = BUY THEN _match_buy(B, order) ELSE _match_sell(B, order)
    IN  [lob |-> m.lob, fills |-> m.fills]

\* place_market: match at +inf (BUY) or 0 (SELL), never rest.  Result [lob, fills].
place_market(B, order) ==
    LET m == IF order.side = BUY
             THEN _match_buy(B, [order EXCEPT !.price = Inf])
             ELSE _match_sell(B, [order EXCEPT !.price = 0])
    IN  [lob |-> m.lob, fills |-> m.fills]

\* A faulty walk that leaves the loop at the match: the orders queued behind
\* the removed one never reach new_q.
RECURSIVE cancel_walk_stops_at_match(_, _)
cancel_walk_stops_at_match(W, order_id) ==
    IF W.q = <<>>
    THEN W
    ELSE LET o == Head(W.q)
         IN  IF o.order_id = order_id /\ ~W.removed
             THEN [W EXCEPT !.q = <<>>, !.removed = TRUE, !.removed_qty = o.qty]
             ELSE cancel_walk_stops_at_match([W EXCEPT !.q = Tail(W.q),
                                                       !.new_q = Append(W.new_q, o)],
                                             order_id)

\* The walk of cancel's while loop: pops q from the left, drops the first order
\* whose id matches, keeps the rest in new_q.  W = [q, new_q, removed, removed_qty].
RECURSIVE cancel_walk(_, _)
cancel_walk(W, order_id) ==
    IF W.q = <<>>
    THEN W
    ELSE LET o == Head(W.q)
         IN  IF o.order_id = order_id /\ ~W.removed
             THEN cancel_walk([W EXCEPT !.q = Tail(W.q), !.removed = TRUE,
                                        !.removed_qty = o.qty], order_id)
             ELSE cancel_walk([W EXCEPT !.q = Tail(W.q),
                                        !.new_q = Append(W.new_q, o)], order_id)

WithSide(B, isBuy, book, prices, agg, idm) ==
    IF isBuy
    THEN [B EXCEPT !.bids = book, !.bid_prices = prices, !.bid_qty = agg, !.id_map = idm]
    ELSE [B EXCEPT !.asks = book, !.ask_prices = prices, !.ask_qty = agg, !.id_map = idm]

\* A faulty answer for an id the index does not know: success is reported.
not_found_reports_true(B) == [lob |-> B, ret |-> TRUE]

\* `if info is None: return False`: the book is left as it is.
not_found(B) == [lob |-> B, ret |-> FALSE]

\* cancel(order_id).  Result [lob, ret].
cancel(B, order_id) ==
    IF order_id \notin DOMAIN B.id_map
    THEN not_found(B)
    ELSE
      LET info == B.id_map[order_id]
          price == info.price
          isBuy == info.side = BUY
          book == IF isBuy THEN B.bids ELSE B.asks
          prices == IF isBuy THEN B.bid_prices ELSE B.ask_prices
          agg == IF isBuy THEN B.bid_qty ELSE B.ask_qty
      IN  IF price \notin DOMAIN book
          THEN [lob |-> [B EXCEPT !.id_map = del_id(B.id_map, order_id)], ret |-> FALSE]
          ELSE
            LET W == cancel_walk([q |-> book[price], new_q |-> <<>>,
                                  removed |-> FALSE, removed_qty |-> 0], order_id)
                new_q == W.new_q
            IN  IF ~W.removed
                THEN [lob |-> WithSide(B, isBuy, Put(book, price, new_q), prices, agg, B.id_map),
                      ret |-> FALSE]
                ELSE
                  LET agg1 == dec_agg(agg, price, W.removed_qty)
                      idm == del_id(B.id_map, order_id)
                  IN  IF new_q # <<>>
                      THEN [lob |-> WithSide(B, isBuy, Put(book, price, new_q), prices,
                                             IF Get(agg1, price, 0) <= 0
                                             THEN Put(agg1, price, SumQty(new_q))
                                             ELSE agg1,
                                             idm),
                            ret |-> TRUE]
                      ELSE [lob |-> WithSide(B, isBuy, Pop(book, price),
                                             _remove_price(prices, price),
                                             Pop(agg1, price), idm),
                            ret |-> TRUE]

\* Index in q of the first order with the given id, 0 when there is none
\* (the for loop of modify that finds `target`).
FirstIndex(q, order_id) ==
    IF \E i \in 1..Len(q) : q[i].order_id = order_id
    THEN CHOOSE i \in 1..Len(q) :
            /\ q[i].order_id = order_id
            /\ \A j \in 1..(i - 1) : q[j].order_id # order_id
    ELSE 0

\* Faulty tests for the in-place branch of modify: one never takes it, the
\* other takes it for every positive new_qty, increases included.
keeps_priority_never(new_price, new_qty, target_qty) == FALSE

keeps_priority_on_any_qty(new_price, new_qty, target_qty) ==
    new_price = None /\ new_qty # None /\ 0 < new_qty[1]

\* `new_price is None and new_qty is not None and 0 < new_qty < target.qty`
keeps_priority(new_price, new_qty, target_qty) ==
    new_price = None /\ new_qty # None /\ 0 < new_qty[1] /\ new_qty[1] < target_qty

\* A faulty validation of the re-insertion that forgets the price.
reinsert_rejected_qty_only(qty2, price2) == qty2 <= 0

\* `if qty2 <= 0 or price2 <= 0: return False`
reinsert_rejected(qty2, price2) == qty2 <= 0 \/ price2 <= 0

\* modify(order_id, new_price, new_qty, ts); new_price and new_qty are None or
\* Some(v).  Result [lob, ret, fills]: fills are those of the re-insertion's
\* place_limit, which modify itself drops.
modify(B, order_id, new_price, new_qty, ts) ==
    IF order_id \notin DOMAIN B.id_map
    THEN [lob |-> B, ret |-> FALSE, fills |-> <<>>]
    ELSE
      LET info == B.id_map[order_id]
          side == info.side
          price == info.price
          isBuy == side = BUY
          book == IF isBuy THEN B.bids ELSE B.asks
          agg == IF isBuy THEN B.bid_qty ELSE B.ask_qty
      IN  IF price \notin DOMAIN book
          THEN [lob |-> B, ret |-> FALSE, fills |-> <<>>]
          ELSE
            LET q == book[price]
                ti == FirstIndex(q, order_id)
            IN  IF ti = 0
                THEN [lob |-> B, ret |-> FALSE, fills |-> <<>>]
                ELSE
                  LET target == q[ti]
                  IN  IF keeps_priority(new_price, new_qty, target.qty)
                      THEN
                        LET delta == target.qty - new_qty[1]
                            q1 == [q EXCEPT ![ti] = [target EXCEPT !.qty = new_qty[1]]]
                            agg1 == dec_agg(agg, price, delta)
                        IN  [lob |-> IF isBuy
                                     THEN [B EXCEPT !.bids = Put(book, price, q1), !.bid_qty = agg1]
                                     ELSE [B EXCEPT !.asks = Put(book, price, q1), !.ask_qty = agg1],
                             ret |-> TRUE, fills |-> <<>>]
                      ELSE
                        LET old_price == target.price
                            old_qty == target.qty
                            c == cancel(B, order_id)
                        IN  IF ~c.ret
                            THEN [lob |-> c.lob, ret |-> FALSE, fills |-> <<>>]
                            ELSE
                              LET price2 == IF new_price # None THEN new_price[1] ELSE old_price
                                  qty2 == IF new_qty # None THEN new_qty[1] ELSE old_qty
                              IN  IF reinsert_rejected(qty2, price2)
                                  THEN [lob |-> c.lob, ret |-> FALSE, fills |-> <<>>]
                                  ELSE
                                    LET r == place_limit(c.lob,
                                                 Order(order_id, side, price2, qty2, ts))
                                    IN  [lob |-> r.lob, ret |-> TRUE, fills |-> r.fills]

\* The SUBMIT dispatch of the simulator: place_market when the order carries
\* the market marker, place_limit otherwise.
submit(B, order, is_market) ==
    IF is_market THEN place_market(B, order) ELSE place_limit(B, order)

\* ---------------------------------------------------------------- simulator
SUBMIT == "SUBMIT"

CANCEL == "CANCEL"

MODIFY == "MODIFY"

SNAPSHOT == "SNAPSHOT"

EventType == {SUBMIT, CANCEL, MODIFY, SNAPSHOT}

\* Keyword arguments and object attributes: records read with a default.
getattr(r, f, default) == IF f \in DOMAIN r THEN r[f] ELSE default

setattr(r, f, v) == [g \in DOMAIN r \cup {f} |-> IF g = f THEN v ELSE r[g]]

NoKwargs == EmptyDict

Opt(r, f) == IF f \in DOMAIN r THEN Some(r[f]) ELSE None

\* Event(time=time, seq=seq, etype=etype, **kwargs); payload slots default
\* to None.
Event(time, seq, etype, kwargs) ==
    [time |-> time, seq |-> seq, etype |-> etype,
     order |-> Opt(kwargs, "order"),
     order_id |-> Opt(kwargs, "order_id"),
     modify |-> Opt(kwargs, "modify")]

\* Faulty comparisons: one ignores the tiebreaker, the other prefers the
\* event scheduled last among those of one time.
EventLess_time_only(a, b) == a.time < b.time

EventLess_newest_first(a, b) == a.time < b.time \/ (a.time = b.time /\ a.seq > b.seq)

\* dataclass(order=True): events compare by (time, seq) and nothing else.
EventLess(a, b) == a.time < b.time \/ (a.time = b.time /\ a.seq < b.seq)

\* The heap is a set of events; heappush adds one, and pq[0] / heappop give an
\* event that no other event of the heap is less than.
heappush(pq, ev) == pq \cup {ev}

heap_top(pq) == {e \in pq : \A f \in pq : ~EventLess(f, e)}

Action(time, etype, kwargs) == [time |-> time, etype |-> etype, kwargs |-> kwargs]

\* schedule(time, etype, **kwargs) on Q = [_pq, _seq].
schedule(Q, time, etype, kwargs) ==
    [_pq |-> heappush(Q._pq, Event(time, Q._seq + 1, etype, kwargs)),
     _seq |-> Q._seq + 1]

\* for a in actions: self.schedule(a.time, a.etype, **a.kwargs), from the
\* k-th action on.
RECURSIVE schedule_actions(_, _, _)
schedule_actions(Q, actions, k) ==
    IF k > Len(actions)
    THEN Q
    ELSE schedule_actions(schedule(Q, actions[k].time, actions[k].etype,
                                   actions[k].kwargs),
                          actions, k + 1)

\* midprice(): None unless both sides are quoted.
midprice(B) ==
    IF best_bid(B) = None \/ best_ask(B) = None
    THEN None
    ELSE Some((best_bid(B)[1] + best_ask(B)[1]) \div 2)

top_of_book(B) == [best_bid |-> best_bid(B), best_ask |-> best_ask(B), mid |-> midprice(B)]

\* metrics.spread and metrics.imbalance; the imbalance is the fraction
\* <<bids - asks, total>>.
spread(B) ==
    IF best_bid(B) = None \/ best_ask(B) = None
    THEN None
    ELSE Some(best_ask(B)[1] - best_bid(B)[1])

RECURSIVE SumPairs(_)
SumPairs(pairs) == IF pairs = <<>> THEN 0 ELSE pairs[1][2] + SumPairs(Tail(pairs))

imbalance(B, levels) ==
    LET d == depth(B, levels)
        bids_ == SumPairs(d.bids)
        asks_ == SumPairs(d.asks)
        total == bids_ + asks_
    IN  IF total = 0 THEN None ELSE Some(<<bids_ - asks_, total>>)

\* ---------------------------------------------------------------- portfolio
\* Portfolio(): cash and position (fee_per_share is 0).
\* Floats that are not whole numbers of price units (avg_cost, realized_pnl)
\* are exact fractions num/den in lowest terms, den > 0; the rounding of
\* Python's float division is not modelled.
RECURSIVE Gcd(_, _)
Gcd(a, b) == IF b = 0 THEN a ELSE Gcd(b, a % b)

Rat(n, d) ==
    LET g == Gcd(IF n >= 0 THEN n ELSE 0 - n, d)
    IN  [num |-> n \div g, den |-> d \div g]

RatInt(n) == [num |-> n, den |-> 1]

RatAdd(a, b) == Rat(a.num * b.den + b.num * a.den, a.den * b.den)

RatSub(a, b) == Rat(a.num * b.den - b.num * a.den, a.den * b.den)

RatMulInt(a, k) == Rat(a.num * k, a.den)

RatDivInt(a, k) == Rat(a.num, a.den * k)

\* Portfolio(fee_per_share=fee): flat, no cash.
PortfolioWithFee(fee) ==
    [cash |-> 0, position |-> 0, avg_cost |-> RatInt(0), realized_pnl |-> RatInt(0),
     fee_per_share |-> fee]

Portfolio == PortfolioWithFee(0)

\* A faulty closing quantity: the whole fill, even beyond the exposure.
closed_qty_whole_fill(qty, exposure) == qty

\* cover = min(qty, -self.position) / sold = min(qty, self.position)
closed_qty(qty, exposure) == Min(qty, exposure)

\* A faulty opening that keeps the average cost of the position before.
opening_cost_kept(px, avg) == avg

\* if self.position == 0: self.avg_cost = px
opening_cost(px, avg) == RatInt(px)

\* A faulty average: the mean of the two prices, whatever the quantities.
weighted_avg_of_prices(avg, held, px, qty) == RatDivInt(RatAdd(avg, RatInt(px)), 2)

\* (self.avg_cost * held + px * qty) / (held + qty)
weighted_avg(avg, held, px, qty) ==
    RatDivInt(RatAdd(RatMulInt(avg, held), RatInt(px * qty)), held + qty)

\* Portfolio.on_fill: a BUY pays px * qty and the fee and adds qty to the
\* position, a SELL receives px * qty less the fee and takes qty off;
\* avg_cost and realized_pnl follow the average-cost rule.
portfolio_on_fill(pf, fill, my_side) ==
    LET qty == fill.qty
        px == fill.price
        fee == pf.fee_per_share * qty
    IN  IF my_side = BUY
        THEN LET new_pos == pf.position + qty
                 cover == closed_qty(qty, 0 - pf.position)
             IN  [pf EXCEPT
                    !.cash = (pf.cash - px * qty) - fee,
                    !.avg_cost =
                        IF pf.position = 0 THEN opening_cost(px, pf.avg_cost)
                        ELSE IF pf.position > 0
                             THEN weighted_avg(pf.avg_cost, pf.position, px, qty)
                             ELSE IF new_pos > 0 THEN RatInt(px) ELSE pf.avg_cost,
                    !.realized_pnl =
                        IF pf.position < 0
                        THEN RatAdd(pf.realized_pnl,
                                    RatMulInt(RatSub(pf.avg_cost, RatInt(px)), cover))
                        ELSE pf.realized_pnl,
                    !.position = new_pos]
        ELSE LET new_pos == pf.position - qty
                 sold == closed_qty(qty, pf.position)
             IN  [pf EXCEPT
                    !.cash = (pf.cash + px * qty) - fee,
                    !.avg_cost =
                        IF pf.position = 0 THEN opening_cost(px, pf.avg_cost)
                        ELSE IF pf.position < 0
                             THEN weighted_avg(pf.avg_cost, 0 - pf.position, px, qty)
                             ELSE IF new_pos < 0 THEN RatInt(px) ELSE pf.avg_cost,
                    !.realized_pnl =
                        IF pf.position > 0
                        THEN RatAdd(pf.realized_pnl,
                                    RatMulInt(RatSub(RatInt(px), pf.avg_cost), sold))
                        ELSE pf.realized_pnl,
                    !.position = new_pos]

\* The number Portfolio.mark_to_market returns over a book whose midprice
\* is mid: realized_pnl plus the unrealized pnl of the position,
\* (mid - avg_cost) * pos when long, (avg_cost - mid) * (-pos) when short.
mark_value(pf, mid) ==
    LET unreal == IF pf.position > 0
                  THEN RatMulInt(RatSub(RatInt(mid), pf.avg_cost), pf.position)
                  ELSE IF pf.position < 0
                       THEN RatMulInt(RatSub(pf.avg_cost, RatInt(mid)), 0 - pf.position)
                       ELSE RatInt(0)
    IN  RatAdd(pf.realized_pnl, unreal)

\* ---------------------------------------------------------- execution metrics
ExecutionMetrics == [market_volume |-> 0, filled_qty |-> 0, buy_qty |-> 0, sell_qty |-> 0]

\* record_market_volume: for f in fills: self.market_volume += f.qty
record_market_volume(m, fills) ==
    [m EXCEPT !.market_volume = m.market_volume + SumQty(fills)]

\* A faulty on_fill that books every fill on both directional counters.
metrics_on_fill_both_directions(m, fill, side) ==
    [m EXCEPT !.filled_qty = m.filled_qty + fill.qty,
              !.buy_qty = m.buy_qty + fill.qty,
              !.sell_qty = m.sell_qty + fill.qty]

\* ExecutionMetrics.on_fill
metrics_on_fill(m, fill, side) ==
    [m EXCEPT !.filled_qty = m.filled_qty + fill.qty,
              !.buy_qty = IF side = BUY THEN m.buy_qty + fill.qty ELSE m.buy_qty,
              !.sell_qty = IF side = BUY THEN m.sell_qty ELSE m.sell_qty + fill.qty]

\* ---------------------------------------------------------------- strategies
\* Order.__post_init__ raises ValueError on a non-positive qty or price.
order_raises(price, qty) == qty <= 0 \/ price <= 0

TsCounterStart == 10000000

NeverQuoted == 0 - 1000000000

\* Strategy.__init__: the fields every strategy has.
Strategy(kind, name) ==
    [kind |-> kind, name |-> name, portfolio |-> Portfolio,
     my_order_ids |-> {}, _ts_counter |-> TsCounterStart]

Extend(r, more) ==
    [f \in DOMAIN r \cup DOMAIN more |-> IF f \in DOMAIN more THEN more[f] ELSE r[f]]

\* _next_ts: bumps the counter and returns max(now, counter).
bump_ts(s) == [s EXCEPT !._ts_counter = s._ts_counter + 1]

_next_ts(s, at) == IF at > s._ts_counter + 1 THEN at ELSE s._ts_counter + 1

\* What on_tick hands back: the strategy after the call, the actions it
\* returned, and whether it raised instead of returning.
Ticked(s, actions) == [strat |-> s, actions |-> actions, raised |-> FALSE]

Raised(s) == [strat |-> s, actions |-> <<>>, raised |-> TRUE]

\* MarketMaker(name, tick_size, half_spread_ticks, size, tick_interval,
\* inventory_skew_ticks)
MarketMaker(name, tick_size, half_spread_ticks, size, tick_interval, inventory_skew_ticks) ==
    Extend(Strategy("MarketMaker", name),
           [tick_size |-> tick_size, half_spread_ticks |-> half_spread_ticks,
            size |-> size, tick_interval |-> tick_interval,
            inventory_skew_ticks |-> inventory_skew_ticks,
            _last_quote_t |-> NeverQuoted,
            _bid_id |-> name \o "_bid", _ask_id |-> name \o "_ask",
            my_order_ids |-> {name \o "_bid", name \o "_ask"}])

\* A faulty refresh that lists the new quotes before the cancels.
refresh_actions_quotes_first(cancels, quotes) == quotes \o cancels

\* actions = []; the two CANCELs are appended first, then the SUBMITs.
refresh_actions(cancels, quotes) == cancels \o quotes

\* The tail shared by both market makers: cancel both quotes, then build
\* the bid and the ask that are wanted, in that order; an Order that is
\* refused raises out of on_tick before _last_quote_t is written.
quote_actions(s, at, bid_px, ask_px, quote_bid, quote_ask) ==
    LET cancels == <<Action(at, CANCEL, [order_id |-> s._bid_id]),
                     Action(at, CANCEL, [order_id |-> s._ask_id])>>
        s1 == IF quote_bid THEN bump_ts(s) ELSE s
        bid == IF quote_bid
               THEN <<Action(at, SUBMIT,
                             [order |-> Order(s._bid_id, BUY, bid_px, s.size, _next_ts(s, at))])>>
               ELSE <<>>
        s2 == IF quote_ask THEN bump_ts(s1) ELSE s1
        ask == IF quote_ask
               THEN <<Action(at, SUBMIT,
                             [order |-> Order(s._ask_id, SELL, ask_px, s.size, _next_ts(s1, at))])>>
               ELSE <<>>
    IN  IF quote_bid /\ order_raises(bid_px, s.size)
        THEN Raised(s1)
        ELSE IF quote_ask /\ order_raises(ask_px, s.size)
             THEN Raised(s2)
             ELSE Ticked([s2 EXCEPT !._last_quote_t = at], refresh_actions(cancels, bid \o ask))

\* MarketMaker.on_tick
MarketMaker_on_tick(s, at, B) ==
    IF at - s._last_quote_t < s.tick_interval
    THEN Ticked(s, <<>>)
    ELSE IF midprice(B) = None
         THEN Ticked(s, <<>>)
         ELSE LET mid == midprice(B)[1]
                  inv == s.portfolio.position
                  skew == IF inv > 0 THEN 0 - s.inventory_skew_ticks
                          ELSE IF inv < 0 THEN s.inventory_skew_ticks
                          ELSE 0
                  bid_px == mid - (s.half_spread_ticks - skew) * s.tick_size
                  ask_px == mid + (s.half_spread_ticks + skew) * s.tick_size
              IN  quote_actions(s, at, bid_px, ask_px, TRUE, TRUE)

\* TWAPExecutor(side, total_qty, start, end, tick_interval, name)
TWAPExecutor(side, total_qty, start, end, tick_interval, name) ==
    Extend(Strategy("TWAPExecutor", name),
           [side |-> side, total_qty |-> total_qty, start |-> start, end |-> end,
            tick_interval |-> tick_interval, _sent |-> 0, _last_t |-> NeverQuoted])

Max(a, b) == IF a >= b THEN a ELSE b

\* A faulty remainder that forgets what was sent.
twap_remaining_forgets_sent(s) == s.total_qty

\* remaining = self.total_qty - self._sent
twap_remaining(s) == s.total_qty - s._sent

\* A faulty count of the slices left: one per remaining time step, whatever
\* the interval.
slices_left_per_step(s, at) == Max(1, (s.end - at) + 1)

\* slices_left = max(1, ((self.end - now) // self.tick_interval) + 1)
slices_left(s, at) == Max(1, ((s.end - at) \div s.tick_interval) + 1)

\* TWAPExecutor.on_tick: one market-marked slice per interval inside the
\* window, remaining // slices_left but at least 1.
TWAPExecutor_on_tick(s, at, B) ==
    IF at < s.start \/ at > s.end
    THEN Ticked(s, <<>>)
    ELSE IF at - s._last_t < s.tick_interval
         THEN Ticked(s, <<>>)
         ELSE LET remaining == twap_remaining(s)
              IN  IF remaining <= 0
                  THEN Ticked(s, <<>>)
                  ELSE LET qty == Max(1, remaining \div slices_left(s, at))
                           oid == s.name \o "_" \o ToString(at)
                           o == setattr(Order(oid, s.side, Px(1), qty, _next_ts(s, at)),
                                        "_is_market", TRUE)
                           s1 == bump_ts(s)
                       IN  Ticked([s1 EXCEPT !.my_order_ids = s.my_order_ids \cup {oid},
                                             !._sent = s._sent + qty,
                                             !._last_t = at],
                                  <<Action(at, SUBMIT, [order |-> o])>>)

\* int(n / d) for d > 0: Python's int() truncates towards zero.
Trunc(n, d) == IF n >= 0 THEN n \div d ELSE 0 - ((0 - n) \div d)

Abs(n) == IF n >= 0 THEN n ELSE 0 - n

\* AdaptiveMMConfig; the float gains inv_k, vol_k and imb_k are fractions
\* <<numerator, denominator>>.
AdaptiveMMConfig(tick_size, size, tick_interval, inv_limit) ==
    [tick_size |-> tick_size, base_half_spread_ticks |-> 1, size |-> size,
     tick_interval |-> tick_interval, inv_target |-> 0, inv_limit |-> inv_limit,
     inv_k |-> <<2, 25>>, vol_window |-> 30, vol_k |-> <<3, 1>>, imb_k |-> <<2, 1>>]

AdaptiveMarketMaker(cfg, name) ==
    Extend(Strategy("AdaptiveMarketMaker", name),
           [cfg |-> cfg, size |-> cfg.size, _last_quote_t |-> NeverQuoted,
            _bid_id |-> name \o "_bid", _ask_id |-> name \o "_ask",
            my_order_ids |-> {name \o "_bid", name \o "_ask"},
            _mid_hist |-> <<>>])

\* _record_mid appends the mid and keeps the last vol_window of them.
_record_mid(s, mid) ==
    LET h == Append(s._mid_hist, mid)
    IN  [s EXCEPT !._mid_hist = IF Len(h) > s.cfg.vol_window THEN Tail(h) ELSE h]

RECURSIVE SumAbsDiffs(_)
SumAbsDiffs(h) ==
    IF Len(h) < 2 THEN 0 ELSE Abs(h[2] - h[1]) + SumAbsDiffs(Tail(h))

Clamp(lo, hi, v) == Max(lo, Min(hi, v))

\* AdaptiveMarketMaker.on_tick
AdaptiveMarketMaker_on_tick(s, at, B) ==
    IF at - s._last_quote_t < s.cfg.tick_interval
    THEN Ticked(s, <<>>)
    ELSE IF midprice(B) = None
         THEN Ticked(s, <<>>)
         ELSE LET mid == midprice(B)[1]
                  s1 == _record_mid(s, mid)
                  cfg == s.cfg
                  n == Len(s1._mid_hist)
                  \* int(vol_k * vol / tick_size), vol the mean absolute change
                  vol_ticks == IF n < 2 THEN 0
                               ELSE Trunc(cfg.vol_k[1] * SumAbsDiffs(s1._mid_hist),
                                          cfg.vol_k[2] * (n - 1) * cfg.tick_size)
                  half_spread == cfg.base_half_spread_ticks + vol_ticks
                  inv == s.portfolio.position
                  inv_err == inv - cfg.inv_target
                  inv_skew == Clamp(0 - cfg.base_half_spread_ticks - 5,
                                    cfg.base_half_spread_ticks + 5,
                                    Trunc(cfg.inv_k[1] * inv_err, cfg.inv_k[2]))
                  im == imbalance(B, 3)
                  imb_skew == IF im = None THEN 0
                              ELSE Trunc(cfg.imb_k[1] * im[1][1], cfg.imb_k[2] * im[1][2])
                  total_skew == inv_skew + imb_skew
                  bid_px == mid - (half_spread + total_skew) * cfg.tick_size
                  ask_px == mid + (half_spread + total_skew) * cfg.tick_size
              IN  quote_actions(s1, at, bid_px, ask_px,
                                inv < cfg.inv_limit, inv > 0 - cfg.inv_limit)

\* A strategy written by the user of the library: a subclass of Strategy
\* whose on_tick answers the k-th call with the k-th entry of its script, a
\* list of <<delay, etype, kwargs>> scheduled at now + delay, delay >= 0.
ScriptedStrategy(name, script, ids) ==
    Extend(Strategy("ScriptedStrategy", name), [script |-> script, my_order_ids |-> ids])

ScriptedStrategy_on_tick(s, at, B) ==
    IF s.script = <<>>
    THEN Ticked(s, <<>>)
    ELSE Ticked([s EXCEPT !.script = Tail(s.script)],
                [k \in 1..Len(Head(s.script)) |->
                    Action(at + Head(s.script)[k][1], Head(s.script)[k][2],
                           Head(s.script)[k][3])])

\* strat.on_tick(self.now, self.lob), by class.
on_tick(s, at, B) ==
    CASE s.kind = "MarketMaker" -> MarketMaker_on_tick(s, at, B)
      [] s.kind = "TWAPExecutor" -> TWAPExecutor_on_tick(s, at, B)
      [] s.kind = "AdaptiveMarketMaker" -> AdaptiveMarketMaker_on_tick(s, at, B)
      [] s.kind = "ScriptedStrategy" -> ScriptedStrategy_on_tick(s, at, B)

\* ------------------------------------------------------------ the run loop
\* _register_order: the first strategy that lists the id becomes its owner.
_register_order(owner, strats, order) ==
    IF \E i \in 1..Len(strats) : order.order_id \in strats[i].my_order_ids
    THEN LET i == CHOOSE i \in 1..Len(strats) :
                    /\ order.order_id \in strats[i].my_order_ids
                    /\ \A j \in 1..(i - 1) : order.order_id \notin strats[j].my_order_ids
         IN  Put(owner, order.order_id, [idx |-> i, side |-> order.side])
    ELSE owner

\* One side of the attribution of a fill: the owner of the id, if it has
\* one, books the fill in its portfolio and in the metrics kept under its
\* name.  A = [strategies, exec_metrics].
attribute_to(A, owner, f, id) ==
    IF id \notin DOMAIN owner
    THEN A
    ELSE LET idx == owner[id].idx
             side == owner[id].side
             name == A.strategies[idx].name
         IN  [strategies |-> [A.strategies EXCEPT ![idx].portfolio =
                                 portfolio_on_fill(A.strategies[idx].portfolio, f, side)],
              exec_metrics |-> [A.exec_metrics EXCEPT ![name] =
                                 metrics_on_fill(A.exec_metrics[name], f, side)]]

\* for f in fills: maker side first, then taker side.
RECURSIVE attribute_fills(_, _, _)
attribute_fills(A, owner, fills) ==
    IF fills = <<>>
    THEN A
    ELSE attribute_fills(
             attribute_to(attribute_to(A, owner, Head(fills), Head(fills).maker_order_id),
                          owner, Head(fills), Head(fills).taker_order_id),
             owner, Tail(fills))

\* The loop over the strategies of the SNAPSHOT handler, from strategy i on:
\* each is ticked with the book as it is and its actions are scheduled in
\* the order returned; an on_tick that raises ends the loop (and the run).
\* T = [strategies, Q, raised, origin]; origin lists, for each event
\* scheduled, the <<strategy, position in its answer, time>> it came from.
RECURSIVE tick_strategies(_, _, _, _)
tick_strategies(T, i, at, B) ==
    IF i > Len(T.strategies) \/ T.raised
    THEN T
    ELSE LET r == on_tick(T.strategies[i], at, B)
         IN  tick_strategies(
                 [strategies |-> [T.strategies EXCEPT ![i] = r.strat],
                  Q |-> schedule_actions(T.Q, r.actions, 1),
                  raised |-> r.raised,
                  origin |-> T.origin \o [k \in 1..Len(r.actions) |->
                                             <<i, k, r.actions[k].time>>]],
                 i + 1, at, B)

\* MarketSimulator(lob, strategies): what __init__ leaves beside the book,
\* with no run in progress and nothing traced.
Constructed(strats) ==
    /\ strategies = strats
    /\ _pq = {}
    /\ _seq = 0
    /\ now = 0
    /\ _order_owner = EmptyDict
    /\ ts_series = [t |-> <<>>, mid |-> <<>>, spr |-> <<>>, imb |-> <<>>]
    /\ exec_metrics = [n \in {strats[i].name : i \in 1..Len(strats)} |-> ExecutionMetrics]
    /\ out = EmptyDict
    /\ until = 0
    /\ pc = "idle"
    /\ sched = <<>>
    /\ trace = <<>>
    /\ config = [lob |-> lob, strategies |-> strats]
    /\ stream = <<>>
    /\ first = None

\* ------------------------------------------------------------ state machine
RECURSIVE SumLevels(_, _)
SumLevels(book, ps) ==
    IF ps = {} THEN 0
    ELSE LET p == CHOOSE x \in ps : TRUE
         IN  Len(book[p]) + SumLevels(book, ps \ {p})

NumResting(B) == SumLevels(B.bids, DOMAIN B.bids) + SumLevels(B.asks, DOMAIN B.asks)

\* `last` is the log of the final call of a run together with `prev`, the book
\* that call started from; a run that has logged its call makes no further call.
NoCall == [op |-> "none"]

OptPrices == {None} \cup {Some(p) : p \in 0..MaxPrice}
OptQtys == {None} \cup {Some(q) : q \in 0..MaxQty}

Init ==
    /\ lob = EmptyBook
    /\ prev = EmptyBook
    /\ last = NoCall
    /\ Constructed(<<>>)

Log(final, rec) ==
    /\ prev' = IF final THEN lob ELSE EmptyBook
    /\ last' = IF final THEN rec ELSE NoCall
    /\ UNCHANGED simvars

\* Ids of the orders resting in the levels of either side.
LevelIds(book) ==
    UNION {{book[p][i].order_id : i \in 1..Len(book[p])} : p \in DOMAIN book}

RestingIds(B) == LevelIds(B.bids) \cup LevelIds(B.asks)

\* A SUBMIT: a limit order, or a market-marked order (dummy price 1).  With
\* unique_ids the caller never reuses the id of an order that still rests.
SubmitWith(unique_ids) ==
    /\ last = NoCall
    /\ \E order_id \in Ids, side \in Side, is_market \in BOOLEAN,
          qty \in Qtys, ts \in TsVals, final \in BOOLEAN :
         \E price \in (IF is_market THEN {1} ELSE Prices) :
            /\ unique_ids => order_id \notin RestingIds(lob)
            /\ LET order == Order(order_id, side, price, qty, ts)
                   r == submit(lob, order, is_market)
               IN  /\ NumResting(r.lob) <= MaxOrders
                   /\ lob' = r.lob
                   /\ Log(final, [op |-> IF is_market THEN "place_market" ELSE "place_limit",
                                  order |-> order, fills |-> r.fills])

Cancel ==
    /\ last = NoCall
    /\ \E order_id \in Ids, final \in BOOLEAN :
         LET r == cancel(lob, order_id)
         IN  /\ lob' = r.lob
             /\ Log(final, [op |-> "cancel", order_id |-> order_id, ret |-> r.ret])

Modify ==
    /\ last = NoCall
    /\ \E order_id \in Ids, new_price \in OptPrices, new_qty \in OptQtys,
          ts \in TsVals, final \in BOOLEAN :
         LET r == modify(lob, order_id, new_price, new_qty, ts)
         IN  /\ lob' = r.lob
             /\ Log(final, [op |-> "modify", order_id |-> order_id,
                            new_price |-> new_price, new_qty |-> new_qty, ts |-> ts,
                            ret |-> r.ret, fills |-> r.fills])

Submit == SubmitWith(FALSE)

SubmitUnique == SubmitWith(TRUE)

Next == Submit \/ Cancel \/ Modify

Spec == Init /\ [][Next]_vars

\* The callers that keep order ids unique among resting orders.
NextUnique == SubmitUnique \/ Cancel \/ Modify

SpecUnique == Init /\ [][NextUnique]_vars

\* ------------------------------------------------- simulator state machine
\* The inputs of the simulator runs explored: books handed to the
\* constructor, strategy lists, and the events a driver schedules.
SeedBook ==
    place_limit(place_limit(EmptyBook, Order("b", BUY, Px(2), 2, 0)).lob,
                Order("a", SELL, Px(3), 2, 0)).lob

InitialBooks == {EmptyBook, SeedBook}

Market(order) == setattr(order, "_is_market", TRUE)

ExternalEvents ==
    {<<SNAPSHOT, NoKwargs>>,
     <<SUBMIT, [order |-> Order("a", SELL, Px(3), 2, 0)]>>,
     <<SUBMIT, [order |-> Order("b", BUY, Px(2), 2, 0)]>>,
     <<SUBMIT, [order |-> Order("c", SELL, Px(2), 1, 0)]>>,
     <<SUBMIT, [order |-> Market(Order("d", BUY, Px(1), 3, 0))]>>,
     <<SUBMIT, [order |-> Market(Order("e", SELL, Px(1), 3, 0))]>>,
     <<CANCEL, [order_id |-> "a"]>>,
     <<MODIFY, [order_id |-> "b", modify |-> [new_price |-> Px(3)]]>>}

ScriptNow ==
    << <<<<0, SUBMIT, [order |-> Market(Order("s1", BUY, Px(1), 1, 0))]>>,
         <<0, CANCEL, [order_id |-> "a"]>>>>,
       <<<<0, SNAPSHOT, NoKwargs>>>> >>

ScriptLater ==
    << <<<<1, SUBMIT, [order |-> Order("s2", SELL, Px(3), 1, 0)]>>,
         <<0, SNAPSHOT, NoKwargs>>,
         <<0, MODIFY, [order_id |-> "b", modify |-> [new_price |-> Px(3)]]>>>> >>

\* A strategy that breaks the rule of scheduling at now or later.
ScriptBack ==
    << <<<<0 - 1, CANCEL, [order_id |-> "a"]>>>> >>

BuiltInLists ==
    LET mm == MarketMaker("mm", Px(1), 1, 2, 1, 1)
        twap == TWAPExecutor(BUY, 3, 0, MaxTime, 1, "twap")
        amm == AdaptiveMarketMaker(AdaptiveMMConfig(Px(1), 2, 1, 2), "amm")
    IN  {<<>>, <<mm>>, <<twap>>, <<amm>>, <<mm, twap>>}

StrategyLists ==
    BuiltInLists \cup
    {<<ScriptedStrategy("s", ScriptNow, {"s1"})>>,
     <<ScriptedStrategy("s", ScriptBack, {})>>,
     <<ScriptedStrategy("s", ScriptLater, {"s2"}),
       TWAPExecutor(BUY, 3, 0, MaxTime, 1, "twap")>>}

SimInitWith(books, lists) ==
    /\ lob \in books
    /\ \E strats \in lists : Constructed(strats)
    /\ prev = EmptyBook
    /\ last = NoCall

SimInit == SimInitWith(InitialBooks, StrategyLists)

\* A driver's call of sim.schedule(time, etype, **kwargs) before the run,
\* with an event of the given set.
ScheduleOf(events) ==
    /\ pc = "idle"
    /\ _seq < MaxScheduled
    /\ \E time \in Times, e \in events :
         LET Q == schedule([_pq |-> _pq, _seq |-> _seq], time, e[1], e[2])
         IN  /\ _pq' = Q._pq
             /\ _seq' = Q._seq
             /\ sched' = Append(sched, [seq |-> Q._seq, time |-> time, during |-> 0,
                                        strat |-> 0, k |-> 0])
             /\ stream' = Append(stream, Action(time, e[1], e[2]))
    /\ UNCHANGED <<lob, prev, last, now, _order_owner, strategies, exec_metrics,
                   ts_series, out, until, pc, trace, config, first>>

Schedule == ScheduleOf(ExternalEvents)

\* run(until) is entered: out = SimResult().
Run ==
    /\ pc = "idle"
    /\ \E u \in Times : until' = u
    /\ out' = [fills |-> <<>>, snapshots |-> <<>>]
    /\ pc' = "running"
    /\ UNCHANGED <<lob, prev, last, _pq, _seq, now, _order_owner, strategies,
                   exec_metrics, ts_series, trace, sched, config, stream, first>>

\* A faulty loop test that stops before the events of time until.
loop_test_strict(pq, limit) == pq # {} /\ \A e \in heap_top(pq) : e.time < limit

\* while self._pq and self._pq[0].time <= until
loop_test(pq, limit) == pq # {} /\ \A e \in heap_top(pq) : e.time <= limit

\* The loop test holds and heappop hands ev to the handler of its type.
Popped(ev, etype) ==
    /\ pc = "running"
    /\ loop_test(_pq, until)
    /\ ev \in heap_top(_pq)
    /\ ev.etype = etype
    /\ now' = ev.time

\* What the trace keeps of a dispatch: the event, the fills the matching
\* engine produced while it was handled, and how many snapshots and marks
\* had been appended when it was popped.
Traced(ev, fills) ==
    trace' = Append(trace, [time |-> ev.time, seq |-> ev.seq, etype |-> ev.etype,
                            fills |-> fills,
                            snapshots |-> Len(out.snapshots),
                            marks |-> Len(getattr(out, "pnl_t", <<>>))])

\* for m in self.exec_metrics.values(): m.record_market_volume(fills)
record_all(metrics, fills) ==
    [n \in DOMAIN metrics |-> record_market_volume(metrics[n], fills)]

OnSubmit ==
    \E ev \in _pq :
        /\ Popped(ev, SUBMIT)
        /\ LET order == ev.order[1]
               owner == _register_order(_order_owner, strategies, order)
               r == submit(lob, order, getattr(order, "_is_market", FALSE))
               A == attribute_fills([strategies |-> strategies,
                                     exec_metrics |-> record_all(exec_metrics, r.fills)],
                                    owner, r.fills)
           IN  /\ _pq' = _pq \ {ev}
               /\ _order_owner' = owner
               /\ lob' = r.lob
               /\ out' = [out EXCEPT !.fills = out.fills \o r.fills]
               /\ strategies' = A.strategies
               /\ exec_metrics' = A.exec_metrics
               /\ Traced(ev, r.fills)
        /\ UNCHANGED <<prev, last, _seq, ts_series, until, pc, sched, config, stream, first>>

OnCancel ==
    \E ev \in _pq :
        /\ Popped(ev, CANCEL)
        /\ _pq' = _pq \ {ev}
        /\ lob' = cancel(lob, ev.order_id[1]).lob
        /\ _order_owner' = Pop(_order_owner, ev.order_id[1])
        /\ Traced(ev, <<>>)
        /\ UNCHANGED <<prev, last, _seq, strategies, exec_metrics, ts_series, out,
                       until, pc, sched, config, stream, first>>

\* self.lob.modify(ev.order_id, ts=self.now, **ev.modify): the result and the
\* fills of the re-insertion are dropped.
OnModify ==
    \E ev \in _pq :
        /\ Popped(ev, MODIFY)
        /\ LET r == modify(lob, ev.order_id[1], Opt(ev.modify[1], "new_price"),
                           Opt(ev.modify[1], "new_qty"), ev.time)
           IN  /\ _pq' = _pq \ {ev}
               /\ lob' = r.lob
               /\ Traced(ev, r.fills)
        /\ UNCHANGED <<prev, last, _seq, _order_owner, strategies, exec_metrics,
                       ts_series, out, until, pc, sched, config, stream, first>>

\* Portfolio.mark_to_market: None without a mid; otherwise the float the
\* code derives from the portfolio and the mid, kept as that pair.
\* A faulty mark that is missing whenever the portfolio is flat.
mark_to_market_none_when_flat(pf, B) ==
    IF midprice(B) = None \/ pf.position = 0
    THEN None
    ELSE Some([portfolio |-> pf, mid |-> midprice(B)[1]])

mark_to_market(pf, B) ==
    IF midprice(B) = None THEN None ELSE Some([portfolio |-> pf, mid |-> midprice(B)[1]])

\* for s in self.strategies: out.pnl_series[s.name].append(...), from
\* strategy i on; a missing mark is stored as NaN (None here).
RECURSIVE append_marks(_, _, _, _)
append_marks(series, strats, i, B) ==
    IF i > Len(strats)
    THEN series
    ELSE append_marks([series EXCEPT ![strats[i].name] =
                          Append(@, mark_to_market(strats[i].portfolio, B))],
                      strats, i + 1, B)

\* TimeSeries.record
ts_record(S, at, B) ==
    [t |-> Append(S.t, at), mid |-> Append(S.mid, midprice(B)),
     spr |-> Append(S.spr, spread(B)), imb |-> Append(S.imb, imbalance(B, 3))]

OnSnapshot ==
    \E ev \in _pq :
        /\ Popped(ev, SNAPSHOT)
        /\ LET snap == [t |-> ev.time, top |-> top_of_book(lob), depth |-> depth(lob, 5)]
               T == tick_strategies([strategies |-> strategies,
                                     Q |-> [_pq |-> _pq \ {ev}, _seq |-> _seq],
                                     raised |-> FALSE, origin |-> <<>>],
                                    1, ev.time, lob)
               out1 == [out EXCEPT !.snapshots = Append(out.snapshots, snap)]
               out2 == IF "pnl_series" \in DOMAIN out1
                       THEN out1
                       ELSE Extend(out1,
                                   [pnl_series |-> [n \in {strategies[i].name :
                                                           i \in 1..Len(strategies)} |-> <<>>],
                                    pnl_t |-> <<>>])
           IN  /\ ts_series' = ts_record(ts_series, ev.time, lob)
               /\ strategies' = T.strategies
               /\ _pq' = T.Q._pq
               /\ _seq' = T.Q._seq
               /\ sched' = sched \o [j \in 1..Len(T.origin) |->
                                       [seq |-> _seq + j,
                                        time |-> T.origin[j][3],
                                        during |-> ev.seq,
                                        strat |-> T.origin[j][1], k |-> T.origin[j][2]]]
               /\ IF T.raised
                  THEN /\ out' = out1
                       /\ pc' = "raised"
                  ELSE /\ out' = [out2 EXCEPT !.pnl_t = Append(out2.pnl_t, ev.time),
                                             !.pnl_series = append_marks(out2.pnl_series,
                                                               T.strategies, 1, lob)]
                       /\ pc' = pc
               /\ Traced(ev, <<>>)
        /\ UNCHANGED <<lob, prev, last, _order_owner, exec_metrics, until,
                       config, stream, first>>

\* The loop test fails: run returns out.
Return ==
    /\ pc = "running"
    /\ ~loop_test(_pq, until)
    /\ pc' = "returned"
    /\ UNCHANGED <<lob, prev, last, _pq, _seq, now, _order_owner, strategies,
                   exec_metrics, ts_series, out, until, trace, sched, config, stream, first>>

SimNext == Schedule \/ Run \/ OnSubmit \/ OnCancel \/ OnModify \/ OnSnapshot \/ Return

SimSpec == SimInit /\ [][SimNext]_vars

\* One turn of the loop of run(): a dispatch, or the exit.
Loop == OnSubmit \/ OnCancel \/ OnModify \/ OnSnapshot \/ Return

\* The driver of a determinism test: once the run has returned it keeps the
\* fills and the top of book, builds a second simulator from the same book
\* and the same strategy configuration, repeats its schedule() calls and
\* calls run(until) again.
RunAgain ==
    /\ pc = "returned"
    /\ first = None
    /\ first' = Some([fills |-> out.fills, top |-> top_of_book(lob)])
    /\ lob' = config.lob
    /\ strategies' = config.strategies
    /\ LET Q == schedule_actions([_pq |-> {}, _seq |-> 0], stream, 1)
       IN  /\ _pq' = Q._pq
           /\ _seq' = Q._seq
    /\ now' = 0
    /\ _order_owner' = EmptyDict
    /\ ts_series' = [t |-> <<>>, mid |-> <<>>, spr |-> <<>>, imb |-> <<>>]
    /\ exec_metrics' = [n \in DOMAIN exec_metrics |-> ExecutionMetrics]
    /\ out' = [fills |-> <<>>, snapshots |-> <<>>]
    /\ pc' = "running"
    /\ sched' = SubSeq(sched, 1, Len(stream))
    /\ trace' = <<>>
    /\ UNCHANGED <<prev, last, until, config, stream>>

\* A driver that makes at most MaxReplayed schedule() calls.
ScheduleReplayed ==
    /\ Len(stream) < MaxReplayed
    /\ Schedule

SimSpecTwice ==
    SimInit /\ [][ScheduleReplayed \/ Run \/ Loop \/ RunAgain]_vars

\* run(until) is called again on a simulator whose run has returned, with a
\* later limit: out is a fresh SimResult, everything else is as the earlier
\* run left it.  The trace marks where the new run begins.
Resume ==
    /\ pc = "returned"
    /\ \E u \in Times : u > until /\ until' = u
    /\ out' = [fills |-> <<>>, snapshots |-> <<>>]
    /\ pc' = "running"
    /\ trace' = Append(trace, [time |-> now, seq |-> 0, etype |-> "run", fills |-> <<>>,
                              snapshots |-> 0, marks |-> 0])
    /\ UNCHANGED <<lob, prev, last, _pq, _seq, now, _order_owner, strategies,
                   exec_metrics, ts_series, sched, config, stream, first>>

SimSpecResumed ==
    SimInitWith(InitialBooks, BuiltInLists)
        /\ [][ScheduleReplayed \/ Run \/ Loop \/ Resume]_vars

\* Strategy lists whose names are distinct, and one in which the market maker
\* and the TWAP executor were given the same name.
NamedLists ==
    {<<MarketMaker("mm", Px(1), 1, 2, 1, 1), TWAPExecutor(BUY, 3, 0, MaxTime, 1, "twap")>>,
     <<TWAPExecutor(SELL, 2, 0, MaxTime, 1, "sell"), MarketMaker("mm", Px(1), 1, 2, 1, 1)>>,
     <<MarketMaker("x", Px(1), 1, 2, 1, 1), TWAPExecutor(BUY, 3, 0, MaxTime, 1, "x")>>}

SimSpecNames ==
    SimInitWith({SeedBook}, NamedLists) /\ [][ScheduleReplayed \/ Run \/ Loop]_vars

\* Runs that host a TWAPExecutor: total_qty 1 to 3, tick_interval 1 or 2,
\* every window with bounds in Times (start > end included, which the
\* constructor accepts), alone or behind a market maker, over the seeded
\* book, with a driver that schedules snapshots and some order flow.
TwapWindows == Times \X Times

TwapLists ==
    {<<TWAPExecutor(BUY, total, w[1], w[2], every, "twap")>> :
        total \in 1..MaxQty + 1, w \in TwapWindows, every \in 1..2}
    \cup {<<MarketMaker("mm", Px(1), 1, 2, 1, 1),
            TWAPExecutor(SELL, MaxQty + 1, 0, MaxTime, 1, "twap")>>}

TwapFlow ==
    {<<SNAPSHOT, NoKwargs>>,
     <<SUBMIT, [order |-> Order("c", SELL, Px(2), 1, 0)]>>,
     <<CANCEL, [order_id |-> "a"]>>,
     <<MODIFY, [order_id |-> "b", modify |-> [new_price |-> Px(3)]]>>}

SimSpecTwap ==
    SimInitWith({SeedBook}, TwapLists) /\ [][ScheduleOf(TwapFlow) \/ Run \/ Loop]_vars

\* Runs that host only strategies the library ships.
SimSpecBuiltIn == SimInitWith(InitialBooks, BuiltInLists) /\ [][SimNext]_vars

\* Runs that host an AdaptiveMarketMaker whose quotes are the best prices:
\* a book with a bid at 1 and an ask at 5, the maker alone or next to a TWAP
\* seller that trades at time 1, and a driver that schedules snapshots,
\* market sells and a modify that reprices the resting ask down to 2.
WideBook ==
    place_limit(place_limit(EmptyBook, Order("b", BUY, Px(1), 1, 0)).lob,
                Order("a", SELL, Px(5), 1, 0)).lob

MakerFlow ==
    {<<SNAPSHOT, NoKwargs>>,
     <<SUBMIT, [order |-> Market(Order("e", SELL, Px(1), 2, 0))]>>,
     <<MODIFY, [order_id |-> "a", modify |-> [new_price |-> Px(2)]]>>}

MakerLists ==
    LET amm == AdaptiveMarketMaker(AdaptiveMMConfig(Px(1), 2, 1, 1), "amm")
        twap == TWAPExecutor(SELL, 2, 1, 1, 1, "twap")
    IN  {<<amm>>, <<amm, twap>>, <<twap, amm>>}

SimSpecMaker ==
    SimInitWith({WideBook}, MakerLists) /\ [][ScheduleOf(MakerFlow) \/ Run \/ Loop]_vars

\* ---------------------------------------------------- a portfolio on its own
\* Portfolio.on_fill applied to a fresh portfolio, fill after fill: the
\* portfolio is that of the one strategy, and the trace keeps each fill, the
\* side it was booked on and the portfolio before it.
PortfolioInit ==
    /\ lob = EmptyBook
    /\ prev = EmptyBook
    /\ last = NoCall
    /\ \E fee \in {0, 1} :
          Constructed(<<[Strategy("Strategy", "s") EXCEPT !.portfolio = PortfolioWithFee(fee)]>>)

OnFill ==
    /\ Len(trace) < MaxFills
    /\ \E side \in {BUY, SELL}, p \in Prices, q \in 1..(MaxQty + 1) :
          LET fill == Fill("t", "m", Px(p), q)
              pf == strategies[1].portfolio
          IN  /\ strategies' = [strategies EXCEPT ![1].portfolio =
                                    portfolio_on_fill(pf, fill, side)]
              /\ trace' = Append(trace, [fill |-> fill, side |-> side, before |-> pf])
    /\ UNCHANGED <<lob, prev, last, _pq, _seq, now, _order_owner, exec_metrics,
                   ts_series, out, until, pc, sched, config, stream, first>>

PortfolioSpec == PortfolioInit /\ [][OnFill]_vars

\* ----------------------------------------------------- a strategy on its own
\* on_tick called on one strategy, tick after tick, at any times and over
\* any of a few books, its portfolio trading in between.  The trace holds
\* the last call only: its time, the strategy before it, whether the book
\* had a mid, what was returned, and the slices counted before it; out
\* counts the calls, the quantity of the orders returned so far and the
\* time of the last of them.
LowBook ==
    place_limit(place_limit(EmptyBook, Order("b", BUY, Px(1), 3, 0)).lob,
                Order("a", SELL, Px(2), 1, 0)).lob

BidOnlyBook == place_limit(EmptyBook, Order("b", BUY, Px(2), 2, 0)).lob

TickBooks == {BidOnlyBook, SeedBook, LowBook}

TickTimes == 0..(MaxTime + 1)

TickStrategies ==
    {AdaptiveMarketMaker(AdaptiveMMConfig(Px(1), 2, i, 2), "amm") : i \in 1..2}
    \cup {TWAPExecutor(side, q, 0, MaxTime, i, "twap") :
              side \in {BUY, SELL}, q \in {1, 3}, i \in 1..2}
    \cup {TWAPExecutor(BUY, 2, 1, MaxTime + 1, 1, "twap")}

TickInit ==
    /\ lob \in TickBooks
    /\ prev = EmptyBook
    /\ last = NoCall
    /\ \E s \in TickStrategies : Constructed(<<s>>)

RECURSIVE SubmittedQty(_)
SubmittedQty(actions) ==
    IF actions = <<>> THEN 0
    ELSE (IF Head(actions).etype = SUBMIT THEN Head(actions).kwargs.order.qty ELSE 0)
         + SubmittedQty(Tail(actions))

Counted(o) == IF o = EmptyDict THEN [ticks |-> 0, sent |-> 0, last_slice |-> None] ELSE o

Tick ==
    /\ Counted(out).ticks < MaxTicks
    /\ \E at \in TickTimes :
          LET r == on_tick(strategies[1], at, lob)
              c == Counted(out)
              q == SubmittedQty(r.actions)
          IN  /\ now' = at
              /\ strategies' = <<r.strat>>
              /\ trace' = <<[at |-> at, before |-> strategies[1],
                             has_mid |-> midprice(lob) # None,
                             actions |-> r.actions, raised |-> r.raised,
                             sent_before |-> c.sent, last_slice_before |-> c.last_slice]>>
              /\ out' = [ticks |-> c.ticks + 1, sent |-> c.sent + q,
                         last_slice |-> IF q > 0 THEN Some(at) ELSE c.last_slice]
    /\ UNCHANGED <<lob, prev, last, _pq, _seq, _order_owner, exec_metrics,
                   ts_series, until, pc, sched, config, stream, first>>

\* The market moves between two ticks.
MoveBook ==
    /\ \E B \in TickBooks : B # lob /\ lob' = B
    /\ UNCHANGED <<prev, last, _pq, _seq, now, _order_owner, strategies, exec_metrics,
                   ts_series, out, until, pc, sched, trace, config, stream, first>>

\* An order of the strategy trades between two ticks.
Trade ==
    /\ \E side \in {BUY, SELL}, q \in 1..MaxQty :
          LET pf == portfolio_on_fill(strategies[1].portfolio, Fill("t", "m", Px(2), q), side)
          IN  /\ pf.position \in (0 - MaxInv)..MaxInv
              /\ strategies' = [strategies EXCEPT ![1].portfolio = pf]
    /\ UNCHANGED <<lob, prev, last, _pq, _seq, now, _order_owner, exec_metrics,
                   ts_series, out, until, pc, sched, trace, config, stream, first>>

TickSpec == TickInit /\ [][Tick \/ MoveBook \/ Trade]_vars

\* ------------------------------------------------- vocabulary of the claims
Levels(B, side) == IF side = BUY THEN B.bids ELSE B.asks

PriceSeq(B, side) == IF side = BUY THEN B.bid_prices ELSE B.ask_prices

Aggregates(B, side) == IF side = BUY THEN B.bid_qty ELSE B.ask_qty

Opp(side) == IF side = BUY THEN SELL ELSE BUY

RECURSIVE QtySum(_)
QtySum(q) == IF Len(q) = 0 THEN 0 ELSE q[1].qty + QtySum(Tail(q))

RECURSIVE BookQty(_, _)
BookQty(book, ps) ==
    IF ps = {} THEN 0
    ELSE LET p == CHOOSE x \in ps : TRUE
         IN  QtySum(book[p]) + BookQty(book, ps \ {p})

\* Total quantity actually queued on a side.
SideQty(B, side) == BookQty(Levels(B, side), DOMAIN Levels(B, side))

SeqElems(sq) == {sq[i] : i \in 1..Len(sq)}

IsSubmit == last.op \in {"place_limit", "place_market"}

\* Quantity the logged order added to its own side (matching never touches it).
RestedQty == SideQty(lob, last.order.side) - SideQty(prev, last.order.side)

FilledQty == QtySum(last.fills)

\* The opposite side as the logged aggressor found it.
OppBook == Levels(prev, Opp(last.order.side))

\* ---------------------------------------------------------------------- C1
\* C1: after any sequence of calls, whenever both sides are non-empty
\* best_bid() < best_ask(): the book is never locked or crossed.
C1_NoLockedOrCrossedBook ==
    (best_bid(lob) # None /\ best_ask(lob) # None)
        => best_bid(lob)[1] < best_ask(lob)[1]

\* A limit order that crossed, traded, and rested its remainder opposite a
\* non-empty side.
C1_Witness ==
    /\ last.op = "place_limit"
    /\ last.fills # <<>>
    /\ RestedQty > 0
    /\ best_bid(lob) # None
    /\ best_ask(lob) # None

\* ---------------------------------------------------------------------- C2
\* Index of the first fill of the logged call made at price p against maker id,
\* 0 when there is none.
FirstFillOf(id, p) ==
    LET hits == {k \in 1..Len(last.fills) :
                    last.fills[k].maker_order_id = id /\ last.fills[k].price = p}
    IN  IF hits = {} THEN 0 ELSE CHOOSE k \in hits : \A j \in hits : k <= j

\* Of two differently named orders a (at position i) and b (at position j) of
\* one level the aggressor found, b is filled only after a.
FilledInTurn(q, p, i, j) ==
    (q[i].order_id # q[j].order_id /\ FirstFillOf(q[j].order_id, p) # 0)
        => /\ FirstFillOf(q[i].order_id, p) # 0
           /\ FirstFillOf(q[i].order_id, p) < FirstFillOf(q[j].order_id, p)

\* C2 as claimed: of two orders resting at one price the aggressor fills the one
\* with the smaller ts first, whatever the order in which they were inserted.
C2_SmallerTsFillsFirst ==
    IsSubmit =>
        \A p \in DOMAIN OppBook :
            \A i, j \in 1..Len(OppBook[p]) :
                OppBook[p][i].ts < OppBook[p][j].ts => FilledInTurn(OppBook[p], p, i, j)

\* The level the logged limit order rests in is the level as it was, followed
\* by the order's remainder: resting inserts at the tail.
RestedBehindLevel ==
    LET o == last.order
        was == Get(Levels(prev, o.side), o.price, <<>>)
    IN  /\ o.price \in DOMAIN Levels(lob, o.side)
        /\ Levels(lob, o.side)[o.price] = Append(was, [o EXCEPT !.qty = RestedQty])

\* C2 as amended: the aggressor fills the order nearer the head of the level's
\* queue first, whatever the ts values; an order that rests joins its level at
\* the tail, so the head is the order inserted earlier.
C2_EarlierInQueueFillsFirst ==
    /\ IsSubmit =>
          \A p \in DOMAIN OppBook :
              \A i, j \in 1..Len(OppBook[p]) :
                  i < j => FilledInTurn(OppBook[p], p, i, j)
    /\ (last.op = "place_limit" /\ RestedQty > 0) => RestedBehindLevel

\* An aggressor filled two makers of one level of which the head carried the
\* larger ts.
C2_Witness ==
    /\ IsSubmit
    /\ \E p \in DOMAIN OppBook :
          /\ Len(OppBook[p]) = 2
          /\ OppBook[p][1].ts > OppBook[p][2].ts
          /\ OppBook[p][1].order_id # OppBook[p][2].order_id
          /\ FirstFillOf(OppBook[p][1].order_id, p) # 0
          /\ FirstFillOf(OppBook[p][2].order_id, p) # 0

\* ---------------------------------------------------------------------- C3
\* Places (side, price, position) at which an order rests.
Places(B) ==
    {<<sd, p, i>> : sd \in Side, p \in Prices \cup {0, Inf}, i \in 1..MaxOrders} \cap
    {x \in Side \X (Prices \cup {0, Inf}) \X (1..MaxOrders) :
        /\ x[2] \in DOMAIN Levels(B, x[1])
        /\ x[3] <= Len(Levels(B, x[1])[x[2]])}

OrderAt(B, x) == Levels(B, x[1])[x[2]][x[3]]

\* C3: when no order was placed under an id that was resting, the index and
\* the levels agree: every resting order sits exactly once, in the level of its
\* own side and price, and is indexed there; every indexed id rests in the
\* level the index names; so the index is empty iff nothing rests.
C3_IndexAgreesWithLevels ==
    /\ \A x \in Places(lob) :
          LET o == OrderAt(lob, x)
          IN  /\ o.side = x[1]
              /\ o.price = x[2]
              /\ o.order_id \in DOMAIN lob.id_map
              /\ lob.id_map[o.order_id] = [side |-> x[1], price |-> x[2]]
              /\ \A y \in Places(lob) : OrderAt(lob, y).order_id = o.order_id => y = x
    /\ \A id \in DOMAIN lob.id_map :
          LET e == lob.id_map[id]
          IN  /\ e.price \in DOMAIN Levels(lob, e.side)
              /\ \E i \in 1..Len(Levels(lob, e.side)[e.price]) :
                    Levels(lob, e.side)[e.price][i].order_id = id
    /\ (DOMAIN lob.id_map = {}) <=> (Places(lob) = {})

\* A limit order traded, and two orders rest, both indexed, afterwards.
C3_Witness ==
    /\ last.op = "place_limit"
    /\ last.fills # <<>>
    /\ Cardinality(DOMAIN lob.id_map) = 2
    /\ Cardinality(Places(lob)) = 2

\* ---------------------------------------------------------------------- C4
\* C4: for every price with a level the cached aggregate equals the sum of the
\* qty queued there, and depth(k) reports that sum for the first k prices.
C4_AggregatesMatchLevels ==
    /\ \A sd \in Side : \A p \in DOMAIN Levels(lob, sd) :
          /\ p \in DOMAIN Aggregates(lob, sd)
          /\ Aggregates(lob, sd)[p] = QtySum(Levels(lob, sd)[p])
    /\ \A k \in 0..(MaxPrice + 2) :
          LET d == depth(lob, k)
          IN  /\ Len(d.bids) = (IF k <= Len(lob.bid_prices) THEN k ELSE Len(lob.bid_prices))
              /\ Len(d.asks) = (IF k <= Len(lob.ask_prices) THEN k ELSE Len(lob.ask_prices))
              /\ \A i \in 1..Len(d.bids) :
                    d.bids[i] = <<lob.bid_prices[i], QtySum(lob.bids[lob.bid_prices[i]])>>
              /\ \A i \in 1..Len(d.asks) :
                    d.asks[i] = <<lob.ask_prices[i], QtySum(lob.asks[lob.ask_prices[i]])>>

\* An in-place quantity reduction of one of two orders of a level.
C4_Witness ==
    /\ last.op = "modify"
    /\ last.ret
    /\ last.new_price = None
    /\ SideQty(lob, BUY) + SideQty(lob, SELL) < SideQty(prev, BUY) + SideQty(prev, SELL)
    /\ Places(lob) = Places(prev)
    /\ \E sd \in Side : \E p \in DOMAIN Levels(lob, sd) : Len(Levels(lob, sd)[p]) = 2

\* ---------------------------------------------------------------------- C5
\* C5: a price is in a side's price sequence iff the side has a level at that
\* price and the level's queue is non-empty; no empty level is kept.
C5_PricesAreTheNonEmptyLevels ==
    \A sd \in Side :
        /\ \A p \in DOMAIN Levels(lob, sd) : Levels(lob, sd)[p] # <<>>
        /\ SeqElems(PriceSeq(lob, sd)) = DOMAIN Levels(lob, sd)

\* A cancel emptied one of two levels of a side.
C5_Witness ==
    /\ last.op = "cancel"
    /\ last.ret
    /\ \E sd \in Side :
          /\ Len(PriceSeq(prev, sd)) = 2
          /\ Len(PriceSeq(lob, sd)) = 1

\* ---------------------------------------------------------------------- C6
\* C6: bid prices strictly descending, ask prices strictly ascending (hence no
\* duplicates), so best_bid()/best_ask() are the maximum bid / minimum ask
\* price at which an order rests.
C6_PriceSequencesSorted ==
    /\ \A i \in 1..(Len(lob.bid_prices) - 1) : lob.bid_prices[i] > lob.bid_prices[i + 1]
    /\ \A i \in 1..(Len(lob.ask_prices) - 1) : lob.ask_prices[i] < lob.ask_prices[i + 1]
    /\ LET bidPx == {x[2] : x \in {y \in Places(lob) : y[1] = BUY}}
           askPx == {x[2] : x \in {y \in Places(lob) : y[1] = SELL}}
       IN  /\ best_bid(lob) = (IF bidPx = {} THEN None
                               ELSE Some(CHOOSE m \in bidPx : \A p \in bidPx : p <= m))
           /\ best_ask(lob) = (IF askPx = {} THEN None
                               ELSE Some(CHOOSE m \in askPx : \A p \in askPx : m <= p))

\* A limit order opened a new best bid above an existing bid level.
C6_Witness ==
    /\ last.op = "place_limit"
    /\ last.order.side = BUY
    /\ Len(prev.bid_prices) = 1
    /\ Len(lob.bid_prices) = 2
    /\ lob.bid_prices[1] = last.order.price

RECURSIVE TakenAt(_, _)
TakenAt(k, p) ==
    IF k <= 1 THEN 0
    ELSE TakenAt(k - 1, p)
         + (IF last.fills[k - 1].price = p THEN last.fills[k - 1].qty ELSE 0)

\* Quantity the aggressor still had before its k-th fill.
TakerLeft(k) == last.order.qty - QtySum(SubSeq(last.fills, 1, k - 1))

\* Opposite prices that still held quantity before the k-th fill.
LivePrices(k) == {p \in DOMAIN OppBook : QtySum(OppBook[p]) > TakenAt(k, p)}

BestLive(k) ==
    IF last.order.side = BUY
    THEN CHOOSE m \in LivePrices(k) : \A p \in LivePrices(k) : m <= p
    ELSE CHOOSE m \in LivePrices(k) : \A p \in LivePrices(k) : p <= m

\* Position in q of the order at the head once c units were taken from the front.
HeadAfter(q, c) ==
    CHOOSE i \in 1..Len(q) :
        /\ QtySum(SubSeq(q, 1, i - 1)) <= c
        /\ c < QtySum(SubSeq(q, 1, i))

\* C8: every fill of place_limit / place_market is priced at the maker's resting
\* price, the best opposite price at the moment of the match, which for a limit
\* aggressor is no worse than its limit; its qty is min(taker remaining, maker
\* qty) and at least 1.
C8_FillsAtMakerPrice ==
    IsSubmit =>
        \A k \in 1..Len(last.fills) :
            LET f == last.fills[k]
            IN  /\ LivePrices(k) # {}
                /\ f.price = BestLive(k)
                /\ f.taker_order_id = last.order.order_id
                /\ LET q == OppBook[f.price]
                       c == TakenAt(k, f.price)
                       maker == q[HeadAfter(q, c)]
                       makerQty == QtySum(SubSeq(q, 1, HeadAfter(q, c))) - c
                   IN  /\ f.maker_order_id = maker.order_id
                       /\ f.price = maker.price
                       /\ f.qty = (IF TakerLeft(k) <= makerQty THEN TakerLeft(k) ELSE makerQty)
                /\ f.qty >= 1
                /\ last.op = "place_limit" =>
                      IF last.order.side = BUY
                      THEN f.price <= last.order.price
                      ELSE f.price >= last.order.price

\* A limit BUY filled below its limit, then again at a worse price.
C8_Witness ==
    /\ last.op = "place_limit"
    /\ last.order.side = BUY
    /\ Len(last.fills) = 2
    /\ last.fills[1].price < last.fills[2].price
    /\ last.fills[1].price < last.order.price

\* ---------------------------------------------------------------------- C9
OwnSideUnchanged ==
    LET sd == last.order.side
    IN  /\ Levels(lob, sd) = Levels(prev, sd)
        /\ PriceSeq(lob, sd) = PriceSeq(prev, sd)
        /\ Aggregates(lob, sd) = Aggregates(prev, sd)

\* C9 as claimed: after place_market the market order's id is not in the index
\* and its own side has gained nothing, whatever the book held before.
C9_MarketIdNotIndexed ==
    last.op = "place_market" =>
        /\ last.order.order_id \notin DOMAIN lob.id_map
        /\ OwnSideUnchanged

\* C9 as amended: place_market adds nothing: every index entry it leaves was
\* there before the call (so the market order's id is indexed afterwards only if
\* an order of that id already rested), and its own side is unchanged.
C9_MarketNeverRests ==
    last.op = "place_market" =>
        /\ \A id \in DOMAIN lob.id_map :
              id \in DOMAIN prev.id_map /\ lob.id_map[id] = prev.id_map[id]
        /\ last.order.order_id \notin DOMAIN prev.id_map
              => last.order.order_id \notin DOMAIN lob.id_map
        /\ OwnSideUnchanged

\* A market order outlived the opposite side while orders rested on its own.
C9_Witness ==
    /\ last.op = "place_market"
    /\ last.fills # <<>>
    /\ FilledQty < last.order.qty
    /\ PriceSeq(prev, last.order.side) # <<>>

\* --------------------------------------------------------------------- C10
OppLiquidity == SideQty(prev, Opp(last.order.side))

\* C10: a market order of qty q against opposite liquidity L fills exactly
\* min(q, L); with q >= L the opposite side is left empty and the rest of the
\* order is discarded; with L = 0 there is no fill and the book is unchanged.
C10_MarketFillsMinOfQtyAndLiquidity ==
    last.op = "place_market" =>
        LET q == last.order.qty
            L == OppLiquidity
            sd == Opp(last.order.side)
        IN  /\ FilledQty = (IF q <= L THEN q ELSE L)
            /\ q >= L =>
                  /\ Levels(lob, sd) = EmptyDict
                  /\ PriceSeq(lob, sd) = <<>>
                  /\ Aggregates(lob, sd) = EmptyDict
                  /\ RestedQty = 0
            /\ L = 0 => (last.fills = <<>> /\ lob = prev)

\* A market order larger than the opposite side it swept: part of it is
\* discarded.
C10_Witness ==
    /\ last.op = "place_market"
    /\ OppLiquidity > 0
    /\ last.order.qty > OppLiquidity
    /\ last.fills # <<>>
    /\ PriceSeq(lob, Opp(last.order.side)) = <<>>

\* --------------------------------------------------------------------- C11
\* The order a logged cancel or modify acts on: the index entry of the id in
\* the book the call found, and the first order of that id in the level the
\* entry names.
Known == last.order_id \in DOMAIN prev.id_map

TSide == prev.id_map[last.order_id].side

TPrice == prev.id_map[last.order_id].price

TLevel == Levels(prev, TSide)[TPrice]

TIdx ==
    CHOOSE i \in 1..Len(TLevel) :
        /\ TLevel[i].order_id = last.order_id
        /\ \A j \in 1..(i - 1) : TLevel[j].order_id # last.order_id

Target == TLevel[TIdx]

Without(q, i) == SubSeq(q, 1, i - 1) \o SubSeq(q, i + 1, Len(q))

\* Book A is book B with the target taken out and nothing else touched: its
\* level lost that one entry, the level's aggregate fell by the target's
\* quantity, every other level of the side and the whole opposite side are as
\* they were, and the index lost the id only.
TargetRemoved(A, B) ==
    /\ Get(Levels(A, TSide), TPrice, <<>>) = Without(TLevel, TIdx)
    /\ Get(Aggregates(A, TSide), TPrice, 0)
          = Get(Aggregates(B, TSide), TPrice, 0) - Target.qty
    /\ \A x \in (DOMAIN Levels(A, TSide) \cup DOMAIN Levels(B, TSide)) \ {TPrice} :
          /\ Get(Levels(A, TSide), x, <<>>) = Get(Levels(B, TSide), x, <<>>)
          /\ Get(Aggregates(A, TSide), x, 0) = Get(Aggregates(B, TSide), x, 0)
    /\ Levels(A, Opp(TSide)) = Levels(B, Opp(TSide))
    /\ PriceSeq(A, Opp(TSide)) = PriceSeq(B, Opp(TSide))
    /\ Aggregates(A, Opp(TSide)) = Aggregates(B, Opp(TSide))
    /\ A.id_map = [x \in DOMAIN B.id_map \ {last.order_id} |-> B.id_map[x]]

C12_UnknownIdIsRefused ==
    /\ (last.op \in {"cancel", "modify"} /\ last.order_id \notin RestingIds(prev))
          => (~last.ret /\ lob = prev)
    /\ (last.op = "cancel" /\ last.ret)
          => LET again == cancel(lob, last.order_id)
             IN  ~again.ret /\ again.lob = lob

\* A cancel of an id that is not resting was refused by a book that holds
\* two other orders.
C12_Witness ==
    /\ last.op = "cancel"
    /\ last.order_id \notin RestingIds(prev)
    /\ ~last.ret
    /\ NumResting(prev) = 2

\* --------------------------------------------------------------------- C13
\* A logged modify of an indexed id that asks for a smaller positive quantity
\* and no price.
IsReduce ==
    /\ last.op = "modify"
    /\ Known
    /\ last.new_price = None
    /\ last.new_qty # None
    /\ 0 < last.new_qty[1]
    /\ last.new_qty[1] < Target.qty

\* Every level and aggregate of side other than the one at price p is the
\* same in A and B.
SameElsewhere(A, B, side, p) ==
    \A x \in (DOMAIN Levels(A, side) \cup DOMAIN Levels(B, side)) \ {p} :
        /\ Get(Levels(A, side), x, <<>>) = Get(Levels(B, side), x, <<>>)
        /\ Get(Aggregates(A, side), x, 0) = Get(Aggregates(B, side), x, 0)

SameSide(A, B, side) ==
    /\ Levels(A, side) = Levels(B, side)
    /\ PriceSeq(A, side) = PriceSeq(B, side)
    /\ Aggregates(A, side) = Aggregates(B, side)

\* C13: modify(id, new_qty = q) with no new_price and 0 < q < current quantity
\* returns true, sets the order's quantity to q, lowers its level's aggregate
\* by the difference and changes nothing else: the order keeps its place in
\* the queue and its ts, every other order and level is unchanged.
C13_ReduceKeepsPriority ==
    IsReduce
        => /\ last.ret
           /\ Levels(lob, TSide)[TPrice]
                 = [TLevel EXCEPT ![TIdx] = [Target EXCEPT !.qty = last.new_qty[1]]]
           /\ Aggregates(lob, TSide)[TPrice]
                 = Aggregates(prev, TSide)[TPrice] - (Target.qty - last.new_qty[1])
           /\ SameElsewhere(lob, prev, TSide, TPrice)
           /\ PriceSeq(lob, TSide) = PriceSeq(prev, TSide)
           /\ SameSide(lob, prev, Opp(TSide))
           /\ lob.id_map = prev.id_map

\* The head of a two-order level was reduced and is still the head.
C13_Witness ==
    /\ IsReduce
    /\ last.ret
    /\ Len(TLevel) = 2
    /\ TIdx = 1
    /\ Levels(lob, TSide)[TPrice][1].order_id = last.order_id
    /\ Levels(lob, TSide)[TPrice][1].qty = last.new_qty[1]
    /\ Levels(lob, TSide)[TPrice][2] = TLevel[2]

\* --------------------------------------------------------------------- C14
\* A logged modify of an indexed id that is not an in-place reduction: a
\* price is given, the quantity asked is at least the current one, or nothing
\* is asked.
IsRequeue ==
    /\ last.op = "modify"
    /\ Known
    /\ \/ last.new_price # None
       \/ last.new_qty # None /\ last.new_qty[1] >= Target.qty
       \/ last.new_price = None /\ last.new_qty = None

Price2 == IF last.new_price # None THEN last.new_price[1] ELSE Target.price

Qty2 == IF last.new_qty # None THEN last.new_qty[1] ELSE Target.qty

\* The queue the re-inserted order finds at its resulting price on its side:
\* the level of the book before the call, without the order itself.
QueueFound ==
    IF Price2 = TPrice
    THEN Without(TLevel, TIdx)
    ELSE Get(Levels(prev, TSide), Price2, <<>>)

\* The order at the tail of the level at its resulting price, with quantity n.
RestsAtTail(n) ==
    /\ Get(Levels(lob, TSide), Price2, <<>>)
          = Append(QueueFound, Order(last.order_id, TSide, Price2, n, last.ts))
    /\ last.order_id \in DOMAIN lob.id_map
    /\ lob.id_map[last.order_id] = [side |-> TSide, price |-> Price2]

\* C14, as stated: every modify of a resting order that is not an in-place
\* reduction, with a positive resulting price and quantity, leaves the order
\* resting at the tail of the level at its resulting price with the new
\* price and quantity and the supplied ts.
C14_RequeuedOrderRestsWithNewQty ==
    (IsRequeue /\ Price2 > 0 /\ Qty2 > 0) => RestsAtTail(Qty2)

\* The re-insertion meets an opposite order at its resulting price or better.
Crosses ==
    \E x \in DOMAIN Levels(prev, Opp(TSide)) :
        IF TSide = BUY THEN x <= Price2 ELSE x >= Price2

\* C14, amended: such a modify returns true and re-enters the order as a
\* fresh limit order at the resulting price with the supplied ts.  It first
\* matches like any limit order; what is not filled rests at the tail of the
\* level at the resulting price, behind every order already there, and when
\* the resulting price does not cross the other side that is the whole new
\* quantity.  The level the order left holds the others in their old order.
C14_RequeueMatchesThenRestsAtTail ==
    (IsRequeue /\ Price2 > 0 /\ Qty2 > 0)
        => /\ last.ret
           /\ \A i \in 1..Len(last.fills) :
                 last.fills[i].taker_order_id = last.order_id
           /\ QtySum(last.fills) <= Qty2
           /\ ~Crosses => last.fills = <<>>
           /\ IF QtySum(last.fills) < Qty2
              THEN RestsAtTail(Qty2 - QtySum(last.fills))
              ELSE Get(Levels(lob, TSide), Price2, <<>>) = QueueFound
           /\ Price2 # TPrice
                 => Get(Levels(lob, TSide), TPrice, <<>>) = Without(TLevel, TIdx)

\* A quantity increase at an unchanged, non-crossing price sent the head of a
\* two-order level behind the other order.
C14_Witness ==
    /\ IsRequeue
    /\ last.new_price = None
    /\ last.new_qty # None
    /\ last.new_qty[1] > Target.qty
    /\ Len(TLevel) = 2
    /\ TIdx = 1
    /\ TLevel[2].order_id # last.order_id
    /\ Levels(lob, TSide)[TPrice]
          = <<TLevel[2], Order(last.order_id, TSide, TPrice, last.new_qty[1], last.ts)>>

\* --------------------------------------------------------------------- C15
\* A logged modify of an indexed id that asks for a non-positive quantity or
\* a non-positive price.
IsRejectedRequeue ==
    /\ last.op = "modify"
    /\ Known
    /\ \/ last.new_qty # None /\ last.new_qty[1] <= 0
       \/ last.new_price # None /\ last.new_price[1] <= 0

\* C15: modify of a resting order whose resulting quantity or price is not
\* positive returns false, and its only effect is that of a successful cancel
\* of the order: index, level and aggregate lose it, every other order is
\* unchanged.
C15_RejectedRequeueIsACancel ==
    IsRejectedRequeue
        => /\ ~last.ret
           /\ last.fills = <<>>
           /\ TargetRemoved(lob, prev)
           /\ SeqElems(PriceSeq(lob, TSide)) = DOMAIN Levels(lob, TSide)

\* A modify to price 0 was refused and took the tail of a two-order level
\* out of the book.
C15_Witness ==
    /\ IsRejectedRequeue
    /\ last.new_price = Some(0)
    /\ ~last.ret
    /\ Len(TLevel) = 2
    /\ TIdx = 2
    /\ Levels(lob, TSide)[TPrice] = <<TLevel[1]>>
    /\ last.order_id \notin DOMAIN lob.id_map

\* --------------------------------------------------------------------- C16
\* The schedule() call that made the event with sequence number n.
CallOf(n) == CHOOSE i \in 1..Len(sched) : sched[i].seq = n

\* The dispatch during which a schedule() call was made by a strategy.
DispatchOf(c) == CHOOSE i \in 1..Len(trace) : trace[i].seq = c.during

\* Dispatch a comes before dispatch b in (time, seq) order.
Earlier(a, b) == a.time < b.time \/ (a.time = b.time /\ a.seq < b.seq)

\* Every strategy of the run has scheduled its actions at now or later.
SchedulesAhead ==
    \A i \in 1..Len(sched) :
        sched[i].during # 0 => sched[i].time >= trace[DispatchOf(sched[i])].time

\* C16: in a run whose strategies schedule at time >= now, events are
\* dispatched in strictly increasing (time, seq) order, events of one time
\* in the order of their schedule() calls, and every schedule() call gets a
\* sequence number larger than all before.
C16_DispatchInTimeSeqOrder ==
    /\ \A i, j \in 1..Len(sched) : i < j => sched[i].seq < sched[j].seq
    /\ SchedulesAhead
          => \A i, j \in 1..Len(trace) :
                i < j => /\ Earlier(trace[i], trace[j])
                         /\ trace[i].time = trace[j].time
                               => CallOf(trace[i].seq) < CallOf(trace[j].seq)

\* A run has returned in which an event scheduled by a strategy during the
\* run was dispatched after an earlier-scheduled event of its time and
\* before an event that was scheduled before it for a later time.
C16_Witness ==
    /\ pc = "returned"
    /\ SchedulesAhead
    /\ \E i, j, l \in 1..Len(trace) :
          /\ i < j /\ j < l
          /\ trace[i].time = trace[j].time
          /\ sched[CallOf(trace[j].seq)].during # 0
          /\ trace[l].time > trace[j].time
          /\ trace[l].seq < trace[j].seq

\* --------------------------------------------------------------------- C17
\* The schedule() calls a strategy made during a SNAPSHOT for the time of
\* that SNAPSHOT.
IsTickActionNow(c) ==
    /\ c.during # 0
    /\ c.time = trace[DispatchOf(c)].time

\* Position in the trace of the dispatch of the event with sequence number
\* n, 0 while it has not been dispatched.
DispatchedAt(n) ==
    IF \E i \in 1..Len(trace) : trace[i].seq = n
    THEN CHOOSE i \in 1..Len(trace) : trace[i].seq = n
    ELSE 0

\* C17: an action a strategy returned from on_tick during a SNAPSHOT at now
\* and scheduled at now is dispatched only after the handling of that
\* SNAPSHOT is complete (snapshot entry and marks appended) and after every
\* event of the same time that was scheduled before it; the actions of one
\* on_tick go in the order returned and before those of the strategies
\* ticked after it.
C17_TickActionsFollowTheirSnapshot ==
    \A j \in 1..Len(trace) :
        LET c == sched[CallOf(trace[j].seq)]
            d == DispatchOf(c)
        IN  IsTickActionNow(c)
              => /\ d < j
                 /\ trace[d].etype = SNAPSHOT
                 /\ trace[j].snapshots > trace[d].snapshots
                 /\ trace[j].marks > trace[d].marks
                 /\ \A i \in 1..(CallOf(trace[j].seq) - 1) :
                       sched[i].time = c.time
                         => /\ DispatchedAt(sched[i].seq) # 0
                            /\ DispatchedAt(sched[i].seq) < j
                 /\ \A i \in 1..Len(sched) :
                       (/\ sched[i].during = c.during
                        /\ sched[i].time = c.time
                        /\ \/ sched[i].strat < c.strat
                           \/ sched[i].strat = c.strat /\ sched[i].k < c.k)
                         => /\ DispatchedAt(sched[i].seq) # 0
                            /\ DispatchedAt(sched[i].seq) < j

\* A run has returned in which a SNAPSHOT ticked two strategies that both
\* answered with actions for now, and an event scheduled before the run for
\* the same time was dispatched between the SNAPSHOT and those actions.
C17_Witness ==
    /\ pc = "returned"
    /\ \E d, e, j1, j2 \in 1..Len(trace) :
          /\ d < e /\ e < j1 /\ j1 < j2
          /\ trace[d].etype = SNAPSHOT
          /\ trace[e].time = trace[d].time
          /\ sched[CallOf(trace[e].seq)].during = 0
          /\ sched[CallOf(trace[j1].seq)].during = trace[d].seq
          /\ sched[CallOf(trace[j2].seq)].during = trace[d].seq
          /\ IsTickActionNow(sched[CallOf(trace[j1].seq)])
          /\ IsTickActionNow(sched[CallOf(trace[j2].seq)])
          /\ sched[CallOf(trace[j1].seq)].strat = 1
          /\ sched[CallOf(trace[j2].seq)].strat = 2

\* --------------------------------------------------------------------- C18
\* No event is dispatched twice and none of a time after until.
DispatchedOnceWithinUntil ==
    \A i \in 1..Len(trace) :
        /\ trace[i].time <= until
        /\ \A j \in 1..Len(trace) : trace[j].seq = trace[i].seq => j = i

\* When run has returned, every event ever scheduled for a time up to until
\* has been dispatched and is off the queue, and every other one is still
\* queued.
ReturnedLeavesTheRest ==
    pc = "returned"
        => \A i \in 1..Len(sched) :
              IF sched[i].time <= until
              THEN /\ DispatchedAt(sched[i].seq) # 0
                   /\ \A e \in _pq : e.seq # sched[i].seq
              ELSE /\ DispatchedAt(sched[i].seq) = 0
                   /\ \E e \in _pq : e.seq = sched[i].seq /\ e.time = sched[i].time

\* Every queued event is of a type the loop handles, so while run() is
\* executing it can always take a turn: a dispatch or the exit.
CanTakeATurn == \A ev \in _pq : ev.etype \in EventType

Remaining ==
    <<IF pc = "running" THEN 1 ELSE 0,
      Cardinality({e \in _pq : e.time <= until /\ e.etype = SNAPSHOT}),
      Cardinality({e \in _pq : e.time <= until})>>

LexLess(a, b) ==
    \/ a[1] < b[1]
    \/ a[1] = b[1] /\ a[2] < b[2]
    \/ a[1] = b[1] /\ a[2] = b[2] /\ a[3] < b[3]

\* C18: run(until) over a finite queue with the built-in strategies always
\* terminates; on return every event queued for a time <= until, scheduled
\* during the run or before it, has been dispatched exactly once, none of a
\* later time has been dispatched, and those remain queued.
\* Termination is the descent of Remaining: while run() is executing a turn
\* of its loop can always be taken, and every turn lowers, in lexicographic
\* order, the triple of natural numbers <<running, SNAPSHOT events queued
\* for a time <= until, events queued for a time <= until>>.
C18_RunTerminatesAndDrainsUpToUntil ==
    /\ [](DispatchedOnceWithinUntil /\ ReturnedLeavesTheRest /\ CanTakeATurn)
    /\ [][Loop => LexLess(Remaining', Remaining)]_vars

\* A run with a built-in strategy has returned: it dispatched an event the
\* strategy scheduled during the run and left an event of a later time on
\* the queue.
C18_Witness ==
    /\ pc = "returned"
    /\ strategies # <<>>
    /\ \A i \in 1..Len(strategies) : strategies[i].kind # "ScriptedStrategy"
    /\ \E i \in 1..Len(trace) : sched[CallOf(trace[i].seq)].during # 0
    /\ \E e \in _pq : e.time > until

\* --------------------------------------------------------------------- C19
\* C19: two runs from identical initial event streams and identically
\* configured strategies produce identical fill sequences and an identical
\* final top of book.
C19_SecondRunRepeatsTheFirst ==
    (pc = "returned" /\ first # None)
        => /\ out.fills = first[1].fills
           /\ top_of_book(lob) = first[1].top

\* A second run with strategies has returned after trading with a
\* strategy's order and leaving both sides quoted.
C19_Witness ==
    /\ pc = "returned"
    /\ first # None
    /\ strategies # <<>>
    /\ \E i \in 1..Len(out.fills) :
          out.fills[i].maker_order_id \in DOMAIN _order_owner
    /\ best_bid(lob) # None
    /\ best_ask(lob) # None

\* ------------------------------------------------------------------ C20
\* The quantity of every fill the matching engine produced while the events
\* of the trace were handled.
RECURSIVE EngineVolume(_)
EngineVolume(tr) ==
    IF tr = <<>>
    THEN 0
    ELSE QtySum(Head(tr).fills) + EngineVolume(Tail(tr))

\* C20: after every dispatched event of a run, each strategy's market_volume
\* counter equals the total quantity of every fill the matching engine has
\* produced so far during the run.
C20_MarketVolumeIsEngineVolume ==
    \A n \in DOMAIN exec_metrics :
        exec_metrics[n].market_volume = EngineVolume(trace)

\* ------------------------------------------------------------------ C21
DistinctNames ==
    \A i, j \in 1..Len(strategies) : i # j => strategies[i].name # strategies[j].name

\* The fills the step in hand appended to the result of the run.
NewFills == SubSeq(out'.fills, Len(out.fills) + 1, Len(out'.fills))

\* Whether strategy i is the recorded owner, on the given side, of an id.
OwnsAs(i, id, side) ==
    /\ id \in DOMAIN _order_owner'
    /\ _order_owner'[id].idx = i
    /\ _order_owner'[id].side = side

\* The quantity (Value = FALSE) or the money (Value = TRUE) of the fills fs
\* on the sides that strategy i owns as side, maker and taker counted apart.
RECURSIVE OwnedOn(_, _, _, _)
OwnedOn(fs, i, side, value) ==
    IF fs = <<>>
    THEN 0
    ELSE LET f == Head(fs)
             w == IF value THEN f.qty * f.price ELSE f.qty
         IN  (IF OwnsAs(i, f.maker_order_id, side) THEN w ELSE 0)
             + (IF OwnsAs(i, f.taker_order_id, side) THEN w ELSE 0)
             + OwnedOn(Tail(fs), i, side, value)

Involved(i) ==
    \E k \in 1..Len(NewFills) :
        \E side \in {BUY, SELL} :
            \/ OwnsAs(i, NewFills[k].maker_order_id, side)
            \/ OwnsAs(i, NewFills[k].taker_order_id, side)

\* What the fills of the step mean for strategy i and for no other.
AttributedTo(i) ==
    LET bought == OwnedOn(NewFills, i, BUY, FALSE)
        sold == OwnedOn(NewFills, i, SELL, FALSE)
        paid == OwnedOn(NewFills, i, BUY, TRUE)
        got == OwnedOn(NewFills, i, SELL, TRUE)
        n == strategies[i].name
        pf == strategies[i].portfolio
        m == exec_metrics[n]
    IN  /\ strategies'[i].portfolio.position = (pf.position + bought) - sold
        /\ strategies'[i].portfolio.cash = (pf.cash - paid) + got
        /\ exec_metrics'[n].filled_qty = m.filled_qty + bought + sold
        /\ exec_metrics'[n].buy_qty = m.buy_qty + bought
        /\ exec_metrics'[n].sell_qty = m.sell_qty + sold
        /\ ~Involved(i) => strategies'[i].portfolio = pf

\* C21 as stated: a fill in which strategy S owns neither side leaves S's
\* portfolio and S's filled_qty, buy_qty and sell_qty unchanged; a fill in
\* which S owns a side updates only S's portfolio and counters, by the fill
\* qty on S's recorded side.
C21_FillsTouchOnlyTheirOwners ==
    [][pc = "running" => \A i \in 1..Len(strategies) : AttributedTo(i)]_vars

\* C21 amended: the same, in a run whose strategies have distinct names.
C21_FillsTouchOnlyTheirOwnersByName ==
    [][(pc = "running" /\ DistinctNames)
           => \A i \in 1..Len(strategies) : AttributedTo(i)]_vars

\* Two distinctly named strategies, one of which has traded while the other
\* has not.
C21_Witness ==
    /\ pc = "running"
    /\ DistinctNames
    /\ \E i, j \in 1..Len(strategies) :
          /\ exec_metrics[strategies[i].name].filled_qty > 0
          /\ strategies[i].portfolio.position # 0
          /\ exec_metrics[strategies[j].name].filled_qty = 0
          /\ strategies[j].portfolio = Portfolio
    /\ out.fills # <<>>

\* ------------------------------------------------------------------ C22
\* The entries of the trace that belong to the run in progress.
RECURSIVE ThisRun(_)
ThisRun(tr) ==
    IF tr = <<>> THEN <<>>
    ELSE IF tr[Len(tr)].etype = "run" THEN <<>>
         ELSE Append(ThisRun(SubSeq(tr, 1, Len(tr) - 1)), tr[Len(tr)])

SnapshotsIn(tr) == Cardinality({k \in 1..Len(tr) : tr[k].etype = SNAPSHOT})

InARun == pc \in {"running", "returned"}

PnlT(o) == IF "pnl_t" \in DOMAIN o THEN o.pnl_t ELSE <<>>

PnlSeries(o, n) == IF "pnl_series" \in DOMAIN o THEN o.pnl_series[n] ELSE <<>>

\* The series of the result are as long as the snapshots of this run are many.
ResultSeriesCoIndexed ==
    LET n == SnapshotsIn(ThisRun(trace))
    IN  /\ Len(out.snapshots) = n
        /\ Len(PnlT(out)) = n
        /\ \A i \in 1..Len(strategies) : Len(PnlSeries(out, strategies[i].name)) = n

AnalyticsLengths == {Len(ts_series.t), Len(ts_series.mid), Len(ts_series.spr), Len(ts_series.imb)}

\* A PnL entry is missing exactly when the snapshot of the same index saw no
\* midprice.
NaNIffNoMid ==
    \A i \in 1..Len(strategies) :
        \A k \in 1..Len(PnlSeries(out, strategies[i].name)) :
            (PnlSeries(out, strategies[i].name)[k] = None) <=> (out.snapshots[k].top.mid = None)

IsPrefix(a, b) == Len(a) <= Len(b) /\ SubSeq(b, 1, Len(a)) = a

\* Within a run the series only grow at their ends.
AppendOnly ==
    (pc = "running" /\ pc' \in {"running", "returned"})
        => /\ IsPrefix(out.snapshots, out'.snapshots)
           /\ IsPrefix(PnlT(out), PnlT(out'))
           /\ \A i \in 1..Len(strategies) :
                  IsPrefix(PnlSeries(out, strategies[i].name),
                           PnlSeries(out', strategies[i].name))
           /\ IsPrefix(ts_series.t, ts_series'.t)
           /\ IsPrefix(ts_series.mid, ts_series'.mid)
           /\ IsPrefix(ts_series.spr, ts_series'.spr)
           /\ IsPrefix(ts_series.imb, ts_series'.imb)

\* C22 as stated: within a run with distinctly named strategies, after every
\* dispatched event the snapshot list, pnl_t, every strategy's pnl_series and
\* the analytics series (t, mid, spread, imbalance) all have the same length,
\* the number of SNAPSHOT events dispatched in the run; entries are only
\* appended; a PnL entry is NaN exactly when the book has no midprice at that
\* snapshot.
C22_SeriesCoIndexedPerRun ==
    /\ []((InARun /\ DistinctNames)
            => /\ ResultSeriesCoIndexed
               /\ AnalyticsLengths = {SnapshotsIn(ThisRun(trace))}
               /\ NaNIffNoMid)
    /\ [][DistinctNames => AppendOnly]_vars

\* C22 amended: the series of the result count the snapshots of the run, the
\* analytics series those of every run of the simulator so far.
C22_ResultPerRunAnalyticsPerSimulator ==
    /\ []((InARun /\ DistinctNames)
            => /\ ResultSeriesCoIndexed
               /\ AnalyticsLengths = {SnapshotsIn(trace)}
               /\ NaNIffNoMid)
    /\ [][DistinctNames => AppendOnly]_vars

\* A second run of a simulator with a strategy has taken a snapshot after
\* the first run took one, and one of the marks is missing and one is not.
C22_Witness ==
    /\ InARun
    /\ strategies # <<>>
    /\ SnapshotsIn(trace) > SnapshotsIn(ThisRun(trace))
    /\ SnapshotsIn(ThisRun(trace)) > 0
    /\ \E k \in 1..Len(out.snapshots) : out.snapshots[k].top.mid # None

\* ------------------------------------------------------------------ C23
\* The portfolio after the k-th fill of the trace.
PfAfter(k) == IF k = Len(trace) THEN strategies[1].portfolio ELSE trace[k + 1].before

IsRoundTrip(first_side) ==
    /\ Len(trace) = 2
    /\ trace[1].before.fee_per_share = 0
    /\ trace[1].side = first_side
    /\ trace[2].side = Opp(first_side)
    /\ trace[1].fill.qty = trace[2].fill.qty

\* C23: from a flat portfolio with zero fee, a BUY of q at p1 followed by a
\* SELL of q at p2 leaves position 0 and realized_pnl (p2 - p1) * q, with
\* position q and avg_cost p1 in between; a SELL of q at p1 followed by a BUY
\* of q at p2 leaves position 0 and realized_pnl (p1 - p2) * q.
C23_RoundTripRealizesThePriceDifference ==
    LET q == trace[1].fill.qty
        p1 == trace[1].fill.price
        p2 == trace[2].fill.price
    IN  /\ IsRoundTrip(BUY)
            => /\ PfAfter(1).position = q
               /\ PfAfter(1).avg_cost = [num |-> p1, den |-> 1]
               /\ PfAfter(2).position = 0
               /\ PfAfter(2).realized_pnl = [num |-> (p2 - p1) * q, den |-> 1]
        /\ IsRoundTrip(SELL)
            => /\ PfAfter(2).position = 0
               /\ PfAfter(2).realized_pnl = [num |-> (p1 - p2) * q, den |-> 1]

\* A long round trip of more than one unit has made money.
C23_Witness ==
    /\ IsRoundTrip(BUY)
    /\ trace[2].fill.price > trace[1].fill.price
    /\ trace[1].fill.qty > 1
    /\ strategies[1].portfolio.realized_pnl.num > 0

\* ------------------------------------------------------------------ C24
\* Fractions compared by cross-multiplication: a = b + c * k.
RatIsSum(a, b, c, k) ==
    a.num * b.den * c.den = (b.num * c.den + c.num * k * b.den) * a.den

\* What the k-th fill of the trace did to the portfolio.
RealizesOnlyOnClose(k) ==
    LET e == trace[k]
        b == e.before
        a == PfAfter(k)
        qty == e.fill.qty
        px == [num |-> e.fill.price, den |-> 1]
        signed == IF e.side = BUY THEN qty ELSE 0 - qty
        closes == (e.side = SELL /\ b.position > 0) \/ (e.side = BUY /\ b.position < 0)
        exposure == IF b.position > 0 THEN b.position ELSE 0 - b.position
        done == IF qty <= exposure THEN qty ELSE exposure
        gain == IF e.side = SELL
                THEN [num |-> px.num * b.avg_cost.den - b.avg_cost.num, den |-> b.avg_cost.den]
                ELSE [num |-> b.avg_cost.num - px.num * b.avg_cost.den, den |-> b.avg_cost.den]
        flips == (b.position > 0 /\ a.position < 0) \/ (b.position < 0 /\ a.position > 0)
    IN  /\ a.position = b.position + signed
        /\ closes => /\ RatIsSum(a.realized_pnl, b.realized_pnl, gain, done)
                      /\ a.avg_cost = IF flips THEN px ELSE b.avg_cost
        /\ ~closes => a.realized_pnl = b.realized_pnl

\* C24: on_fill realizes PnL only on the quantity that closes existing
\* exposure, (px - avg_cost) * min(qty, position) for a SELL against a long
\* and (avg_cost - px) * min(qty, -position) for a BUY against a short; it
\* keeps avg_cost when the position does not change sign and sets it to the
\* fill price when it flips; a fill that opens or increases a position
\* leaves realized_pnl unchanged; position changes by +qty or -qty.
C24_RealizesOnTheClosedQuantity ==
    \A k \in 1..Len(trace) : RealizesOnlyOnClose(k)

\* A long bought at two prices, held at their weighted average, was sold
\* through by a larger fill, which flipped the position.
C24_Witness ==
    \E k \in 1..Len(trace) :
        /\ trace[k].before.position > 0
        /\ \A j \in 1..(k - 1) :
              trace[k].before.avg_cost # [num |-> trace[j].fill.price, den |-> 1]
        /\ trace[k].side = SELL
        /\ trace[k].fill.qty > trace[k].before.position
        /\ PfAfter(k).position < 0
        /\ PfAfter(k).realized_pnl # trace[k].before.realized_pnl

\* ------------------------------------------------------------------ C25
LastTick == trace[1]

TickedKind(kind) == trace # <<>> /\ strategies[1].kind = kind

\* What the claim expects of a refresh of the adaptive market maker.
IsCancelOf(a, at, id) ==
    a.time = at /\ a.etype = CANCEL /\ a.kwargs = [order_id |-> id]

IsQuoteOf(a, at, id, side, size) ==
    /\ a.time = at
    /\ a.etype = SUBMIT
    /\ DOMAIN a.kwargs = {"order"}
    /\ a.kwargs.order.order_id = id
    /\ a.kwargs.order.side = side
    /\ a.kwargs.order.qty = size

RefreshAnswer(t) ==
    LET b == t.before
        inv == b.portfolio.position
        bid == inv < b.cfg.inv_limit
        ask == inv > 0 - b.cfg.inv_limit
        n == 2 + (IF bid THEN 1 ELSE 0) + (IF ask THEN 1 ELSE 0)
        a == t.actions
    IN  /\ ~t.raised
        /\ Len(a) = n
        /\ IsCancelOf(a[1], t.at, b.name \o "_bid")
        /\ IsCancelOf(a[2], t.at, b.name \o "_ask")
        /\ bid => IsQuoteOf(a[3], t.at, b.name \o "_bid", BUY, b.cfg.size)
        /\ ask => IsQuoteOf(a[n], t.at, b.name \o "_ask", SELL, b.cfg.size)

\* C25: on every refresh tick of the AdaptiveMarketMaker at which a midprice
\* exists the returned actions are CANCEL of <name>_bid, CANCEL of
\* <name>_ask, then a SUBMIT of the bid iff position < inv_limit and a SUBMIT
\* of the ask iff position > -inv_limit, all at time now; with no midprice
\* or fewer than tick_interval ticks since the last refresh it returns no
\* action at all.
C25_RefreshCancelsThenQuotes ==
    TickedKind("AdaptiveMarketMaker")
        => LET t == LastTick
               due == t.at - t.before._last_quote_t >= t.before.cfg.tick_interval
           IN  IF due /\ t.has_mid
               THEN RefreshAnswer(t)
               ELSE ~t.raised /\ t.actions = <<>>

\* ------------------------------------------------------------------ C26
IsSliceOf(t) ==
    LET b == t.before
        a == t.actions[1]
        o == a.kwargs.order
    IN  /\ Len(t.actions) = 1
        /\ a.etype = SUBMIT
        /\ a.time = t.at
        /\ "_is_market" \in DOMAIN o /\ o._is_market = TRUE
        /\ o.side = b.side
        /\ o.qty >= 1
        /\ o.qty <= b.total_qty - t.sent_before
        /\ t.at >= b.start /\ t.at <= b.end
        /\ t.last_slice_before # None
              => t.at - t.last_slice_before[1] >= b.tick_interval

\* C26: over any sequence of ticks the TWAPExecutor's cumulative submitted
\* quantity never exceeds total_qty and it emits nothing once total_qty has
\* been sent; every slice is a market-marked order of quantity between 1 and
\* the remaining quantity, emitted only at a time in [start, end], and two
\* consecutive slices are at least tick_interval apart.
C26_TwapSlicesStayWithinTotal ==
    TickedKind("TWAPExecutor")
        => LET t == LastTick
           IN  /\ ~t.raised
               /\ out.sent <= t.before.total_qty
               /\ t.sent_before >= t.before.total_qty => t.actions = <<>>
               /\ t.actions # <<>> => IsSliceOf(t)

\* The total has been sent, and a tick that the interval and the window
\* would have allowed returned nothing.
C26_Witness ==
    /\ TickedKind("TWAPExecutor")
    /\ LastTick.sent_before = LastTick.before.total_qty
    /\ LastTick.at >= LastTick.before.start
    /\ LastTick.at - LastTick.before._last_t >= LastTick.before.tick_interval
    /\ LastTick.at <= LastTick.before.end
    /\ LastTick.actions = <<>>

\* ------------------------------------------------------------------ C27
\* The best price of the levels an aggressor of the given side faces.
BestFor(side, levels) ==
    IF side = BUY
    THEN CHOOSE p \in DOMAIN levels : \A r \in DOMAIN levels : p <= r
    ELSE CHOOSE p \in DOMAIN levels : \A r \in DOMAIN levels : p >= r

\* The levels after the head of level p gave up n units.
HeadTook(levels, p, n) ==
    IF n < levels[p][1].qty
    THEN [levels EXCEPT ![p][1].qty = @ - n]
    ELSE IF Len(levels[p]) = 1
         THEN [r \in DOMAIN levels \ {p} |-> levels[r]]
         ELSE [levels EXCEPT ![p] = Tail(@)]

\* Every fill, in turn, took from the head of the best level there was.
RECURSIVE EachFillFromBestHead(_, _, _)
EachFillFromBestHead(levels, fills, side) ==
    IF fills = <<>>
    THEN TRUE
    ELSE IF DOMAIN levels = {}
         THEN FALSE
         ELSE LET p == BestFor(side, levels)
                  f == Head(fills)
                  h == levels[p][1]
              IN  /\ f.price = p
                  /\ f.maker_order_id = h.order_id
                  /\ f.qty >= 1
                  /\ f.qty <= h.qty
                  /\ EachFillFromBestHead(HeadTook(levels, p, f.qty), Tail(fills), side)

\* The price the logged aggressor matched at: its limit, or the bound that a
\* market order is given.
MatchLimit ==
    IF last.op = "place_market"
    THEN (IF last.order.side = BUY THEN Inf ELSE 0)
    ELSE last.order.price

StillCrosses(side, limit, best) == IF side = BUY THEN best <= limit ELSE best >= limit

\* Why the loop was left, judged on the book it left behind.
StoppedForAReason ==
    LET side == last.order.side
        left == Levels(lob, Opp(side))
    IN  \/ FilledQty = last.order.qty
        \/ DOMAIN left = {}
        \/ ~StillCrosses(side, MatchLimit, BestFor(side, left))

FillPricesWorsen ==
    \A k \in 1..(Len(last.fills) - 1) :
        IF last.order.side = BUY
        THEN last.fills[k].price <= last.fills[k + 1].price
        ELSE last.fills[k].price >= last.fills[k + 1].price

\* C27: when place_limit (or the matching of place_market) returns, the loop
\* has stopped because the aggressor's quantity is 0, or the opposite side is
\* empty, or the best opposite price does not cross the aggressor's price;
\* every maker it filled was the head of the best opposite level at the
\* time, so the fill prices of a BUY never fall (of a SELL never rise) and no
\* better placed order is passed over.
C27_MatchingStopsForAReasonAndSkipsNoMaker ==
    IsSubmit =>
        /\ StoppedForAReason
        /\ EachFillFromBestHead(OppBook, last.fills, last.order.side)
        /\ FillPricesWorsen

\* A limit SELL filled the head of the best bid level, then the next level,
\* and was exhausted while a bid it crosses was left.
C27_Witness ==
    /\ last.op = "place_limit"
    /\ last.order.side = SELL
    /\ Len(last.fills) = 2
    /\ last.fills[1].price > last.fills[2].price
    /\ FilledQty = last.order.qty
    /\ best_bid(lob) # None
    /\ best_bid(lob)[1] >= last.order.price

\* ------------------------------------------------------------------ C28
\* The order the logged call inserted into a level, if it inserted one: the
\* order of a submit (when a remainder rests), the target of a modify that
\* loses priority (when it is re-inserted).
Inserted ==
    IF IsSubmit THEN {last.order.order_id}
    ELSE IF IsRequeue THEN {last.order_id}
    ELSE {}

IdsOf(q) == {q[i].order_id : i \in 1..Len(q)}

PosOf(q, id) == CHOOSE i \in 1..Len(q) : q[i].order_id = id

\* The level `is` left by the call holds the orders of the level `was` it
\* found in their old relative order, and the inserted order, if it is in
\* this level, behind all of them.
KeepsInsertionOrder(was, is) ==
    \A j \in 1..Len(is) :
        IF is[j].order_id \in Inserted
        THEN j = Len(is)
        ELSE /\ is[j].order_id \in IdsOf(was)
             /\ \A i \in 1..(j - 1) :
                    /\ is[i].order_id \in IdsOf(was)
                    /\ PosOf(was, is[i].order_id) < PosOf(was, is[j].order_id)

\* The quantity the fills before position k took from the maker id.
TakenBefore(id, k) ==
    QtySum(SelectSeq(SubSeq(last.fills, 1, k - 1),
                     LAMBDA f : f.maker_order_id = id))

\* A fill of the order at position j of a level comes only after the fills
\* of the call have taken the whole quantity of every order before it.
EarlierExhaustedFirst(was) ==
    \A k \in 1..Len(last.fills) :
        \A j \in 1..Len(was) :
            last.fills[k].maker_order_id = was[j].order_id
                => \A i \in 1..(j - 1) :
                       TakenBefore(was[i].order_id, k) = was[i].qty

AllLevelsKeepInsertionOrder ==
    \A sd \in Side :
        /\ \A p \in DOMAIN Levels(lob, sd) :
               KeepsInsertionOrder(Get(Levels(prev, sd), p, <<>>), Levels(lob, sd)[p])
        /\ last.op # "cancel"
               => \A p \in DOMAIN Levels(prev, sd) :
                      EarlierExhaustedFirst(Levels(prev, sd)[p])

\* C28: with order ids unique among resting orders, every call leaves each
\* level in insertion order: the orders it found there keep their relative
\* order, an order it inserts (a rested limit remainder, the re-insertion of
\* a modify that loses priority) is at the tail, and its fills reach an
\* order of a level only after every order before it in the level has been
\* filled completely.
C28_LevelsAreFilledInInsertionOrder ==
    last # NoCall => AllLevelsKeepInsertionOrder

\* A modify that loses priority moved the head of a level of two behind the
\* other order, although its ts is the smaller one.
C28_Witness ==
    /\ IsRequeue
    /\ Len(TLevel) = 2
    /\ TIdx = 1
    /\ TPrice \in DOMAIN Levels(lob, TSide)
    /\ LET is == Levels(lob, TSide)[TPrice]
       IN  /\ Len(is) = 2
           /\ is[1] = TLevel[2]
           /\ is[2].order_id = last.order_id
           /\ is[2].ts < is[1].ts

\* ------------------------------------------------------------------ C29
\* The step in hand dispatched an event.
Dispatched == pc = "running" /\ Len(trace') = Len(trace) + 1

\* The matches the book performed while that event was handled.
Matched == trace'[Len(trace')].fills

\* The position of strategy i moves by what its owned orders traded in the
\* matches of the step: bought as owner of a BUY side, sold as owner of a
\* SELL side, as maker or as taker.
PositionFollows(i) ==
    strategies'[i].portfolio.position =
        (strategies[i].portfolio.position + OwnedOn(Matched, i, BUY, FALSE))
            - OwnedOn(Matched, i, SELL, FALSE)

\* C29: after every dispatched event of a run, each strategy's position is
\* the quantity its owned BUY orders have traded in the book minus the
\* quantity its owned SELL orders have traded, every match of the book
\* counted, whether a SUBMIT or a MODIFY triggered it.  Positions start at 0,
\* so this is the statement that every dispatch moves each position by the
\* owned quantity of its matches.
C29_PositionIsOwnedTradedQuantity ==
    [][Dispatched => \A i \in 1..Len(strategies) : PositionFollows(i)]_vars

\* ------------------------------------------------------------------ C30
\* The inventory guard plus one quote, for a maker s.
GuardPlusQuote(s) == (s.cfg.inv_limit + s.cfg.size) - 1

\* C30: in a run that hosts an AdaptiveMarketMaker with inv_limit >= 1, the
\* maker's position stays, after every dispatched event, within the
\* inventory guard plus one quote:
\* -(inv_limit + size - 1) <= position <= inv_limit + size - 1.
C30_MakerPositionWithinGuardPlusQuote ==
    \A i \in 1..Len(strategies) :
        (strategies[i].kind = "AdaptiveMarketMaker" /\ strategies[i].cfg.inv_limit >= 1)
            => /\ strategies[i].portfolio.position <= GuardPlusQuote(strategies[i])
               /\ strategies[i].portfolio.position >= 0 - GuardPlusQuote(strategies[i])

\* ------------------------------------------------------------------ C33
\* The midprices a book of whole prices can show: whole and half prices.
Mids == {(k * PriceUnit) \div 2 : k \in 2..(2 * MaxPrice)}

\* cash + position * avg_cost, exactly.
BookValueAtCost(pf) == RatAdd(RatInt(pf.cash), RatMulInt(pf.avg_cost, pf.position))

\* C33: with fee_per_share = 0, after any sequence of on_fill calls on a
\* portfolio that started flat, cash + position * avg_cost equals
\* realized_pnl in exact arithmetic, and for every midprice mark_to_market
\* equals cash + position * mid.
C33_CashPlusPositionAtCostIsRealized ==
    LET pf == strategies[1].portfolio
    IN  pf.fee_per_share = 0
            => /\ BookValueAtCost(pf) = pf.realized_pnl
               /\ \A mid \in Mids :
                      mark_value(pf, mid) = RatInt(pf.cash + pf.position * mid)

\* Without fees, a position was built at two prices, giving a fractional
\* average cost, and then sold in part: pnl is realized and the rest of the
\* position is still held at that cost.
C33_Witness ==
    /\ strategies[1].portfolio.fee_per_share = 0
    /\ Len(trace) = 3
    /\ trace[3].before.avg_cost.den > 1
    /\ trace[3].side = SELL
    /\ strategies[1].portfolio.position > 0
    /\ strategies[1].portfolio.realized_pnl.num # 0

\* ------------------------------------------------------------------ C32
\* A SNAPSHOT has been dispatched at every integer time of the window of s.
TickedThroughWindow(s) ==
    \A t \in s.start..s.end :
        \E k \in 1..Len(trace) : trace[k].etype = SNAPSHOT /\ trace[k].time = t

\* Every event at time end or before has been dispatched, none having raised.
DispatchedThrough(t) ==
    /\ pc \in {"running", "returned"}
    /\ \A e \in _pq : e.time > t

Scheduled(s) ==
    /\ s.kind = "TWAPExecutor"
    /\ s.total_qty >= 1
    /\ s.tick_interval >= 1
    /\ TickedThroughWindow(s)
    /\ DispatchedThrough(s.end)

\* C32 as stated: with total_qty >= 1 and tick_interval >= 1, if a SNAPSHOT
\* is dispatched at every integer time in [start, end], then once all events
\* at time end have been dispatched the executor has submitted total_qty
\* exactly.
C32_TwapSendsTotalByEnd ==
    \A i \in 1..Len(strategies) :
        Scheduled(strategies[i]) => strategies[i]._sent = strategies[i].total_qty

\* C32 amended: the same for a window that is not empty, start <= end.
C32_TwapSendsTotalByEndOfWindow ==
    \A i \in 1..Len(strategies) :
        (Scheduled(strategies[i]) /\ strategies[i].start <= strategies[i].end)
            => strategies[i]._sent = strategies[i].total_qty

\* An executor of 3 over a window of two times, ticked at both, has sent 3:
\* 1 in the first slice and the remainder in the last.
C32_Witness ==
    \E i \in 1..Len(strategies) :
        /\ Scheduled(strategies[i])
        /\ strategies[i].start < strategies[i].end
        /\ strategies[i].tick_interval = 1
        /\ strategies[i].total_qty = 3
        /\ strategies[i]._sent = 3
        /\ Cardinality(strategies[i].my_order_ids) = 2

\* ------------------------------------------------------------------ C31
IsMaker(s) == s.kind \in {"MarketMaker", "AdaptiveMarketMaker"}

\* Where orders with the given id rest in the book: <<side, price, index>>.
RestingAs(B, id) ==
    {<<sd, p, k>> \in Side \X (DOMAIN B.bids \cup DOMAIN B.asks) \X (1..MaxScheduled * 4) :
        /\ p \in DOMAIN Levels(B, sd)
        /\ k <= Len(Levels(B, sd)[p])
        /\ Levels(B, sd)[p][k].order_id = id}

\* At most one order with a fixed id of maker i rests, and a resting one is
\* recorded as owned by i.
OneQuotePerId(i) ==
    \A id \in {strategies[i]._bid_id, strategies[i]._ask_id} :
        /\ Cardinality(RestingAs(lob, id)) <= 1
        /\ RestingAs(lob, id) # {}
               => /\ id \in DOMAIN _order_owner
                  /\ _order_owner[id].idx = i

\* Every dispatched SUBMIT that a refresh of maker i returned comes after
\* the dispatch of both CANCELs, the first two actions, of the same refresh.
CancelsBeforeQuotes(i) ==
    \A a, c \in 1..Len(sched) :
        (/\ sched[a].strat = i
         /\ sched[c].strat = i
         /\ sched[a].during = sched[c].during
         /\ sched[a].k > 2
         /\ sched[c].k <= 2
         /\ DispatchedAt(sched[a].seq) # 0)
            => /\ DispatchedAt(sched[c].seq) # 0
               /\ DispatchedAt(sched[c].seq) < DispatchedAt(sched[a].seq)

\* The event the step in hand popped from the queue.
PoppedEvent == CHOOSE e \in _pq : e \notin _pq' /\ e.seq = trace'[Len(trace')].seq

\* When the step dispatches the SUBMIT of a fixed id of maker i, no CANCEL of
\* that id for the same time is still waiting in the queue.
QuoteFollowsItsCancel(i) ==
    LET e == PoppedEvent
    IN  (/\ e.etype = SUBMIT
         /\ e.order[1].order_id \in {strategies[i]._bid_id, strategies[i]._ask_id})
            => \A c \in _pq :
                   ~(/\ c.etype = CANCEL
                     /\ c.order_id = <<e.order[1].order_id>>
                     /\ c.time = e.time)

\* C31: in a run in which the ids <name>_bid and <name>_ask are used by one
\* market maker only, after every dispatched event at most one order with
\* each of these ids rests in the book and a resting one has the maker's
\* owner record; every SUBMIT of a refresh is dispatched after the CANCELs
\* of that refresh, none of which is still queued when it is dispatched.
C31_OneRestingQuotePerMakerId ==
    /\ [](\A i \in 1..Len(strategies) :
              IsMaker(strategies[i]) => OneQuotePerId(i) /\ CancelsBeforeQuotes(i))
    /\ [][Dispatched => \A i \in 1..Len(strategies) :
                            IsMaker(strategies[i]) => QuoteFollowsItsCancel(i)]_vars

\* A maker has refreshed twice, the second bid replacing the first: its bid
\* rests once, owned, after two dispatched SUBMITs of refreshes.
C31_Witness ==
    \E i \in 1..Len(strategies) :
        /\ IsMaker(strategies[i])
        /\ Cardinality(RestingAs(lob, strategies[i]._bid_id)) = 1
        /\ Cardinality(RestingAs(lob, strategies[i]._ask_id)) = 1
        /\ \E a, b \in 1..Len(sched) :
              /\ sched[a].strat = i
              /\ sched[b].strat = i
              /\ sched[a].during # sched[b].during
              /\ sched[a].k = 3
              /\ sched[b].k = 3
              /\ DispatchedAt(sched[a].seq) # 0
              /\ DispatchedAt(sched[b].seq) # 0

====
